---------------------------- MODULE Spec2Model ----------------------------
(***************************************************************************)
(* A model of the eventbus core (package eventbus, the revision that has   *)
(* ErrInvalidBuffer, PublishUnstored and SubscribeWithBufferSize): the     *)
(* event log, the optimistic-concurrency guard of Publish, the subscriber  *)
(* registry with non-blocking fan-out, and the replay goroutine started by *)
(* Subscribe.                                                              *)
(*                                                                         *)
(* Strings that the code parses or compares are kept as data:              *)
(*   - an event ID is the sequence of its characters, each digit 0..9 as   *)
(*     itself; the empty sequence is the empty string, Start();            *)
(*   - a time.Time is a natural number, 0 being the zero time.Time, and    *)
(*     Timestamp.After is >;                                               *)
(*   - topics and types are strings, "" being the empty string.            *)
(* The bus mutex makes every critical section one atomic action; what the  *)
(* code does outside the lock (reading the clock, closing the channel,     *)
(* each send of the replay goroutine) is an action of its own.             *)
(***************************************************************************)
EXTENDS Integers, Sequences, FiniteSets, TLC

\* ------------------------------------------------------------ bounds
\* The log holds at most MaxEvents events (Publish is not called beyond).
MaxEvents == 3
\* The wall clock takes the values 1..MaxClock.
MaxClock == 2
\* SubscribeWithBufferSize is called with bufferSize in 1..MaxBuf.
MaxBuf == 2
\* PublishUnstored is called at most MaxUnstored times.
MaxUnstored == 1
\* Close is called at most MaxCloses times on one Subscription.
MaxCloses == 2
\* The longest sequence of events a loaded snapshot holds.
MaxLoad == 2

\* ------------------------------------------------------------ constants
\* The topics callers use as stream keys.
Topics == {"a", "b"}
AllTopics == "*"
NoTopic == ""
Start == <<>>

ErrNone == "nil"
ErrConflict == "eventbus: topic advanced"
ErrNoTopic == "eventbus: topic required"
ErrInvalidBuffer == "eventbus: invalid buffer size"

\* The buffer size Subscribe passes to SubscribeWithBufferSize.
DefaultBufferSize == 1024

\* The threads that call Publish / PublishUnstored, and the calls of
\* Subscribe / SubscribeWithBufferSize (each creates at most one subscriber
\* object, named after the call).
Publishers == {"p1", "p2"}
\* The goroutines that call Dump or SaveToFile.
Dumpers == {"d1", "d2"}
OneDumper == {"d1"}
\* The goroutines that call Load.
Loaders == {"l1", "l2"}
OneLoader == {"l1"}
Subs == {"s1", "s2"}

\* The specifications with a single subscriber use this call.
OneSub == {"s1"}
\* The specifications with a single publishing thread use this one.
OnePublisher == {"p1"}
\* The specifications whose events all have the same topic use this one.
OneTopic == {"a"}

\* What callers pass as bufferSize: a negative size or a size in 1..MaxBuf.
BufferSizes == {-1} \cup 1..MaxBuf

\* What callers pass as topic.
PublishTopics == Topics \cup {AllTopics, NoTopic}
RealTopics == PublishTopics \ {NoTopic}
SubscribeTopics == Topics \cup {AllTopics}
Types == {"T"}

\* Event.Payload is any Go value. Here: nil, a string, a struct, or the
\* map[string]any that json.Unmarshal builds for an object.
NilPayload == "nil"
Payloads == {NilPayload, "struct"}
\* The specifications whose events all have the same payload use this one.
OnePayload == {NilPayload}
\* An ID that names no event of the log.
UnknownID == <<9, 9>>
\* A character that is not a digit, and an ID that holds it ("1x").
NonDigit == 10
BadID == <<1, NonDigit>>
\* The IDs found in the snapshots given to Load.
LoadIDs == {<<1>>, <<2>>, BadID}

VARIABLES
    events,       \* b.events: the log, a sequence of Event
    subscribers,  \* b.subscribers: the registered subscriber objects
    subTopic,     \* sub.topic of each subscriber object ("" before it exists)
    chanCap,      \* cap(sub.ch)
    chanBuf,      \* the events buffered in sub.ch, oldest first
    chanClosed,   \* whether close(sub.ch) has run
    history,      \* the slice `events` the replay goroutine ranges over
    replayPos,    \* the number of elements of history the goroutine has sent or dropped
    fromID,       \* the fromID the subscriber was created with
    closePc,      \* Close closure: "none", "unlocked" (removed, ch held), "done"
    closeCalls,   \* the number of Close calls on the Subscription that have returned
    subErr,       \* the error each Subscribe call returned ("none" before the call)
    received,     \* the events the consumer has received from Subscription.C
    offered,      \* the events publish's fan-out has attempted to send to sub.ch
    now,          \* the wall clock read by time.Now()
    unstored,     \* the number of PublishUnstored calls made so far
    pc,           \* each publisher: "idle" or "lock" (e built, waiting for b.mu)
    call,         \* each publisher's latest call: topic, type, lastID, store, and
                  \* e.Timestamp while the call is in progress (0 once it returned)
    ret,          \* what each publisher's latest call returned: id, err ("none" while
                  \* it is in progress)
    panicked,     \* the panic that stopped the process ("none": it is running)
    waiting,      \* whether the consumer is blocked in a receive from Subscription.C
    scan,         \* the ForEachEvent call: pc ("none", "calling", "done"), the query
                  \* topic, b.events when it held the lock, its local slice `events`,
                  \* and the events it has passed to fn so far
    dumped,       \* what the last Dump call wrote to w
    loadErr,      \* what the last Load call returned ("none" before any)
    mu,           \* b.mu between two steps: "free", or who holds it
    dumping,      \* each Dump or SaveToFile call in progress: its position, the
                  \* copy of the log it holds, and what the last call returned
    loading       \* each Load call in progress: its position and the slice it
                  \* has decoded

busVars == <<events, subscribers>>
subVars == <<subTopic, fromID, chanCap, chanBuf, chanClosed, history, replayPos, closePc,
             closeCalls, subErr, received, offered, waiting>>
ioVars == <<scan, dumped, loadErr, dumping, loading>>
pubVars == <<pc, call, ret>>
vars == <<events, subscribers, subTopic, fromID, chanCap, chanBuf, chanClosed, history,
          replayPos, closePc, closeCalls, subErr, received, offered, now, unstored,
          pc, call, ret, panicked, waiting, scan, dumped, loadErr, mu, dumping,
          loading>>

\* ------------------------------------------------------------ ids
ParseError == -1

IsDigit(c) == c \in 0..9

RECURSIVE DigitsValue(_)
DigitsValue(s) ==
    IF s = <<>> THEN 0
    ELSE DigitsValue(SubSeq(s, 1, Len(s) - 1)) * 10 + s[Len(s)]

\* The digits of 2^64 - 1, the greatest uint64.
MaxUint64 == <<1, 8, 4, 4, 6, 7, 4, 4, 0, 7, 3, 7, 0, 9, 5, 5, 1, 6, 1, 5>>

\* A digit string without its leading zeros (one digit is always kept).
RECURSIVE Canon(_)
Canon(s) == IF Len(s) > 1 /\ s[1] = 0 THEN Canon(Tail(s)) ELSE s

\* The value of a digit string fits in 64 bits: it has fewer digits than
\* MaxUint64, or as many and is not greater.
FitsUint64(s) ==
    LET c == Canon(s)
    IN  \/ Len(c) < Len(MaxUint64)
        \/ /\ Len(c) = Len(MaxUint64)
           /\ \/ c = MaxUint64
              \/ \E i \in 1..Len(c) :
                    /\ c[i] < MaxUint64[i]
                    /\ \A j \in 1..(i - 1) : c[j] = MaxUint64[j]

\* strconv.ParseUint(s, 10, 64) returns an error: the empty string, a
\* character that is not a digit, or a value out of the range of uint64.
ParseFails(s) ==
    \/ s = <<>>
    \/ \E i \in 1..Len(s) : ~IsDigit(s[i])
    \/ ~FitsUint64(s)

\* strconv.ParseUint(s, 10, 64)
ParseUint(s) == IF ParseFails(s) THEN ParseError ELSE DigitsValue(s)

\* v + 1 on uint64, written in decimal, v given by its digits without leading
\* zeros: the sum wraps around to 0 after 2^64 - 1.
RECURSIVE Increment(_)
Increment(c) ==
    IF c = MaxUint64 THEN <<0>>
    ELSE IF c = <<>> THEN <<1>>
    ELSE IF c[Len(c)] < 9 THEN [c EXCEPT ![Len(c)] = @ + 1]
    ELSE Increment(SubSeq(c, 1, Len(c) - 1)) \o <<0>>

\* strconv.FormatUint(v, 10)
RECURSIVE FormatUint(_)
FormatUint(v) ==
    IF v < 10 THEN <<v>> ELSE FormatUint(v \div 10) \o <<v % 10>>

\* A mutant of yieldID: one sequence per topic, the next id is counted from
\* the events of the last event's topic.
yieldID_PerTopic(evs) ==
    IF Len(evs) = 0 THEN <<1>>
    ELSE FormatUint(Len(SelectSeq(evs, LAMBDA e : e.Topic = evs[Len(evs)].Topic)) + 1)

\* A mutant of yieldID: the increment is forgotten.
yieldID_NoIncrement(evs) ==
    IF Len(evs) = 0 THEN <<1>>
    ELSE FormatUint(ParseUint(evs[Len(evs)].ID))

\* Bus.yieldID: "1" for an empty log, else the last event's ID plus one, on
\* uint64 and written in decimal; a last ID that does not parse panics
\* ("panic" here).
yieldID(evs) ==
    IF Len(evs) = 0 THEN <<1>>
    ELSE LET id == evs[Len(evs)].ID
         IN  IF ParseFails(id) THEN "panic" ELSE Increment(Canon(id))

\* ------------------------------------------------------------ queries
Event(id, ts, topic, type, payload) ==
    [ID |-> id, Timestamp |-> ts, Topic |-> topic, Type |-> type, Payload |-> payload]

\* Query.PayloadFilter, a func(any) bool of the caller: nil, or a predicate,
\* given by the payloads it returns true for and by whether it calls a
\* method of the bus.
NoPayloadFilter == [nil |-> TRUE, accepts |-> {}, callsBus |-> FALSE]
PayloadFilter(accepts, callsBus) ==
    [nil |-> FALSE, accepts |-> accepts, callsBus |-> callsBus]

\* The predicates callers pass: every predicate on Payloads that leaves the
\* bus alone, and one that calls the bus.
PayloadFilters ==
    {NoPayloadFilter} \cup {PayloadFilter(a, FALSE) : a \in SUBSET Payloads}
                      \cup {PayloadFilter(Payloads, TRUE)}

\* Query{Topic: topic, AfterID: afterID}; the zero values disable a filter.
\* PayloadFilter is nil in every query the bus itself builds.
Query(topic, afterID) ==
    [Topic |-> topic, Type |-> "", Since |-> 0, Until |-> 0, AfterID |-> afterID,
     PayloadFilter |-> NoPayloadFilter]

\* Query{Topic: topic, PayloadFilter: payloadFilter}, a query of a caller of
\* ForEachEvent.
QueryWith(topic, payloadFilter) ==
    [Query(topic, <<>>) EXCEPT !.PayloadFilter = payloadFilter]

\* Bus.lookup: the index of the last event with this ID, 0 for none (nil).
lookup(evs, id) ==
    IF id = <<>> THEN 0
    ELSE LET hits == {i \in 1..Len(evs) : evs[i].ID = id}
         IN  IF hits = {} THEN 0 ELSE CHOOSE i \in hits : \A j \in hits : j <= i

\* The loop body of Bus.filter: whether event e is kept, `since` being the
\* timestamp of the AfterID event (0: none).
keeps(q, since, e) ==
    /\ ~(q.Topic # "" /\ q.Topic # AllTopics /\ e.Topic # q.Topic)
    /\ ~(q.Type # "" /\ e.Type # q.Type)
    /\ ~(~q.PayloadFilter.nil /\ ~(e.Payload \in q.PayloadFilter.accepts))
    /\ ~(q.Since # 0 /\ ~(e.Timestamp > q.Since))
    /\ ~(q.Until # 0 /\ ~(e.Timestamp < q.Until))
    /\ ~(since # 0 /\ ~(e.Timestamp > since))

\* A mutant of filter: the AfterID bound is inclusive (>= instead of After).
filter_Inclusive(evs, q) ==
    LET at == lookup(evs, q.AfterID)
        since == IF at = 0 THEN 0 ELSE evs[at].Timestamp
    IN  IF q.AfterID # <<>> /\ at = 0 THEN <<>>
        ELSE SelectSeq(evs, LAMBDA e :
                 /\ keeps(q, 0, e)
                 /\ (since = 0 \/ e.Timestamp >= since))

\* Bus.filter: nil for an unknown AfterID; else the events kept, in log
\* order, the AfterID bound being the timestamp of the event looked up.
filter(evs, q) ==
    LET at == lookup(evs, q.AfterID)
        since == IF at = 0 THEN 0 ELSE evs[at].Timestamp
    IN  IF q.AfterID # <<>> /\ at = 0 THEN <<>>
        ELSE SelectSeq(evs, LAMBDA e : keeps(q, since, e))

\* Bus.filter calls q.PayloadFilter: the AfterID, if any, is known, and an
\* event of the log passes the topic and type tests that come before the
\* call of the predicate.
callsPayloadFilter(evs, q) ==
    /\ ~q.PayloadFilter.nil
    /\ ~(q.AfterID # <<>> /\ lookup(evs, q.AfterID) = 0)
    /\ \E i \in 1..Len(evs) :
          /\ ~(q.Topic # "" /\ q.Topic # AllTopics /\ evs[i].Topic # q.Topic)
          /\ ~(q.Type # "" /\ evs[i].Type # q.Type)

\* A mutant of End: the ID of the first event is returned.
End_First(evs) == IF Len(evs) = 0 THEN <<>> ELSE evs[1].ID

\* Bus.End: the ID of the last event, "" for an empty log.
End(evs) == IF Len(evs) = 0 THEN <<>> ELSE evs[Len(evs)].ID

\* The guard of publish: the topic has events after lastID.
conflict(evs, topic, lastID) ==
    Len(filter(evs, Query(topic, lastID))) > 0

\* The IDs a caller can hold: Start(), the ID of a stored event, or an ID
\* of no event.
KnownIDs(evs) == {Start} \cup {evs[i].ID : i \in 1..Len(evs)} \cup {UnknownID}

\* The IDs the bus has handed out: Start(), or the ID of a stored event.
HeldIDs(evs) == {Start} \cup {evs[i].ID : i \in 1..Len(evs)}

\* ------------------------------------------------------------ helpers
Range(seq) == {seq[i] : i \in 1..Len(seq)}

\* A mutant of matches: the subscriber's topic is not looked at.
matches_Everyone(topic, e) == TRUE

\* A mutant of matches: the AllTopics case is forgotten.
matches_ExactOnly(topic, e) == topic = e.Topic

\* The fan-out test of publish: sub.topic is AllTopics or the event's topic.
matches(topic, e) == ~(topic # AllTopics /\ topic # e.Topic)

\* A mutant of handsOff: a send never finds the consumer, as if no receive
\* were ever pending.
handsOff_Never(w) == FALSE

\* case ch <- e of the select: the send completes at once, whatever the
\* capacity, when the consumer is blocked in a receive on the channel.
handsOff(w) == w

\* A mutant of trySend: the capacity is not looked at, the event is always
\* queued.
trySend_Unbounded(buf, cap, e) == Append(buf, e)

\* A mutant of trySend: a full buffer gives up its oldest event to take the
\* new one.
trySend_KeepNewest(buf, cap, e) ==
    IF Len(buf) < cap THEN Append(buf, e) ELSE Append(Tail(buf), e)

\* select { case ch <- e: default: } on an open buffered channel: the event is
\* appended when the buffer has room and dropped otherwise.
trySend(buf, cap, e) == IF Len(buf) < cap THEN Append(buf, e) ELSE buf

NoCall == [topic |-> "", type |-> "", payload |-> NilPayload, lastID |-> <<>>,
           store |-> TRUE, ts |-> 0]
NoRet == [id |-> <<>>, err |-> "none"]
NoScan == [pc |-> "none", topic |-> "", q |-> Query("", <<>>), log |-> <<>>,
           events |-> <<>>, passed |-> <<>>, fnEnd |-> <<>>, fnEvents |-> <<>>]

\* The content of a reader or of a writer: whether it is a JSON array of
\* event objects, and the objects of the array.
Text(valid, array) == [valid |-> valid, array |-> array]

\* A reader whose content is not a JSON array of event objects.
Malformed == Text(FALSE, <<>>)

\* The writer before any Dump: nothing has been written to it.
NoDump == Text(FALSE, <<>>)

\* No Dump call in progress, none returned yet.
NoDumping == [pc |-> "none", copy |-> <<>>, err |-> "none"]
\* The error of a writer that fails, and of an os.Create that fails.
ErrWrite == "write error"
ErrCreate == "create error"
\* No Load call in progress.
NoLoading == [pc |-> "none", events |-> <<>>]

ErrDecode == "json: decode error"

\* ------------------------------------------------------------ initial state
\* New(): an empty log and an empty registry; no subscriber object exists and
\* no publisher has called yet.
Init ==
    /\ events = <<>>
    /\ subscribers = {}
    /\ subTopic = [s \in Subs |-> ""]
    /\ fromID = [s \in Subs |-> <<>>]
    /\ chanCap = [s \in Subs |-> 0]
    /\ chanBuf = [s \in Subs |-> <<>>]
    /\ chanClosed = [s \in Subs |-> FALSE]
    /\ history = [s \in Subs |-> <<>>]
    /\ replayPos = [s \in Subs |-> 0]
    /\ closePc = [s \in Subs |-> "none"]
    /\ closeCalls = [s \in Subs |-> 0]
    /\ subErr = [s \in Subs |-> "none"]
    /\ received = [s \in Subs |-> <<>>]
    /\ offered = [s \in Subs |-> <<>>]
    /\ now = 1
    /\ unstored = 0
    /\ pc = [p \in Publishers |-> "idle"]
    /\ call = [p \in Publishers |-> NoCall]
    /\ ret = [p \in Publishers |-> NoRet]
    /\ panicked = "none"
    /\ waiting = [s \in Subs |-> FALSE]
    /\ scan = NoScan
    /\ dumped = NoDump
    /\ loadErr = "none"
    /\ mu = "free"
    /\ dumping = [d \in Dumpers |-> NoDumping]
    /\ loading = [l \in Loaders |-> NoLoading]

\* ------------------------------------------------------------ the clock
\* The wall clock changes between two readings of time.Now().UTC(); two
\* readings with no Tick between them are equal. UTC() drops the monotonic
\* reading, so what is stored is wall time, which can also be set back.
Tick ==
    /\ panicked = "none"
    /\ \E t \in 1..MaxClock : t # now /\ now' = t
    /\ UNCHANGED <<busVars, subVars, pubVars, unstored, ioVars, panicked, mu>>

\* ------------------------------------------------------------ publish
\* The stored publishes that have been called and not yet returned.
PendingStores == {q \in Publishers : pc[q] = "lock" /\ call[q].store}

\* publish, up to b.mu.Lock(): the topic check and the construction of e with
\* Timestamp: time.Now(). Publish passes store = TRUE; PublishUnstored passes
\* lastID "" and store = FALSE.
PublishCall(p, topic, type, payload, lastID, store) ==
    /\ panicked = "none"
    /\ pc[p] = "idle"
    /\ store => Len(events) + Cardinality(PendingStores) < MaxEvents
    /\ ~store => lastID = <<>> /\ unstored < MaxUnstored
    /\ IF topic = ""
       THEN /\ call' = [call EXCEPT ![p] = [topic |-> topic, type |-> type, payload |-> payload,
                                            lastID |-> lastID, store |-> store, ts |-> 0]]
            /\ ret' = [ret EXCEPT ![p] = [id |-> <<>>, err |-> ErrNoTopic]]
            /\ UNCHANGED <<pc, unstored>>
       ELSE /\ call' = [call EXCEPT ![p] = [topic |-> topic, type |-> type, payload |-> payload,
                                            lastID |-> lastID, store |-> store, ts |-> now]]
            /\ pc' = [pc EXCEPT ![p] = "lock"]
            /\ unstored' = IF store THEN unstored ELSE unstored + 1
            /\ ret' = [ret EXCEPT ![p] = NoRet]
    /\ UNCHANGED <<busVars, subVars, now, mu, ioVars, panicked>>

\* A mutant of PublishLocked: the fan-out runs before the guard, so a call
\* that returns ErrConflict has already sent its event to the subscribers.
PublishLocked_FanOutOnConflict(p) ==
    LET c == call[p]
        isConflict == c.store /\ conflict(events, c.topic, c.lastID)
        id == IF c.store /\ ~isConflict THEN yieldID(events) ELSE <<>>
        e == Event(id, c.ts, c.topic, c.type, c.payload)
        targets == {s \in subscribers : matches(subTopic[s], e)}
    IN
    /\ panicked = "none"
    /\ pc[p] = "lock"
    /\ id # "panic"
    /\ events' = IF c.store /\ ~isConflict THEN Append(events, e) ELSE events
    /\ offered' = [s \in Subs |->
           IF s \in targets THEN Append(offered[s], e) ELSE offered[s]]
    /\ chanBuf' = [s \in Subs |->
           IF s \in targets THEN trySend(chanBuf[s], chanCap[s], e) ELSE chanBuf[s]]
    /\ ret' = [ret EXCEPT ![p] = [id |-> id, err |-> IF isConflict THEN ErrConflict
                                                     ELSE ErrNone]]
    /\ pc' = [pc EXCEPT ![p] = "idle"]
    /\ call' = [call EXCEPT ![p].ts = 0]
    /\ UNCHANGED <<subscribers, subTopic, fromID, chanCap, chanClosed, history,
                   replayPos, closePc, closeCalls, subErr, received, waiting, now, mu,
                   unstored, ioVars,
                   panicked>>

\* A mutant of PublishLocked: the send to a subscriber is a blocking one, the
\* critical section ends only once every target's queue has taken the event.
PublishLocked_BlockingSend(p) ==
    LET c == call[p]
        id == IF c.store THEN yieldID(events) ELSE <<>>
        e == Event(id, c.ts, c.topic, c.type, c.payload)
        targets == {s \in subscribers : matches(subTopic[s], e)}
    IN
    /\ panicked = "none"
    /\ pc[p] = "lock"
    /\ mu = "free"
    /\ IF c.store /\ conflict(events, c.topic, c.lastID)
       THEN /\ ret' = [ret EXCEPT ![p] = [id |-> <<>>, err |-> ErrConflict]]
            /\ pc' = [pc EXCEPT ![p] = "idle"]
            /\ call' = [call EXCEPT ![p].ts = 0]
            /\ UNCHANGED <<busVars, subVars, panicked>>
       ELSE /\ id # "panic"
            /\ \A s \in targets : Len(chanBuf[s]) < chanCap[s]
            /\ events' = IF c.store THEN Append(events, e) ELSE events
            /\ offered' = [s \in Subs |->
                   IF s \in targets THEN Append(offered[s], e) ELSE offered[s]]
            /\ chanBuf' = [s \in Subs |->
                   IF s \in targets THEN Append(chanBuf[s], e) ELSE chanBuf[s]]
            /\ ret' = [ret EXCEPT ![p] = [id |-> id, err |-> ErrNone]]
            /\ pc' = [pc EXCEPT ![p] = "idle"]
            /\ call' = [call EXCEPT ![p].ts = 0]
            /\ UNCHANGED <<subscribers, subTopic, fromID, chanCap, chanClosed, history,
                           replayPos, closePc, closeCalls, subErr, received, waiting, panicked>>
    /\ UNCHANGED <<now, mu, unstored, ioVars>>

\* A mutant of PublishLocked: a full queue ends the fan-out loop (the loop
\* meeting the full subscriber first), so no subscriber gets the event.
PublishLocked_AbortOnFull(p) ==
    LET c == call[p]
        id == IF c.store THEN yieldID(events) ELSE <<>>
        e == Event(id, c.ts, c.topic, c.type, c.payload)
        targets == {s \in subscribers : matches(subTopic[s], e)}
        aborted == \E s \in targets : Len(chanBuf[s]) >= chanCap[s]
    IN
    /\ panicked = "none"
    /\ pc[p] = "lock"
    /\ mu = "free"
    /\ IF c.store /\ conflict(events, c.topic, c.lastID)
       THEN /\ ret' = [ret EXCEPT ![p] = [id |-> <<>>, err |-> ErrConflict]]
            /\ pc' = [pc EXCEPT ![p] = "idle"]
            /\ call' = [call EXCEPT ![p].ts = 0]
            /\ UNCHANGED <<busVars, subVars, panicked>>
       ELSE /\ id # "panic"
            /\ events' = IF c.store THEN Append(events, e) ELSE events
            /\ offered' = [s \in Subs |->
                   IF s \in targets THEN Append(offered[s], e) ELSE offered[s]]
            /\ chanBuf' = [s \in Subs |->
                   IF s \in targets /\ ~aborted
                   THEN trySend(chanBuf[s], chanCap[s], e) ELSE chanBuf[s]]
            /\ ret' = [ret EXCEPT ![p] = [id |-> id, err |-> ErrNone]]
            /\ pc' = [pc EXCEPT ![p] = "idle"]
            /\ call' = [call EXCEPT ![p].ts = 0]
            /\ UNCHANGED <<subscribers, subTopic, fromID, chanCap, chanClosed, history,
                           replayPos, closePc, closeCalls, subErr, received, waiting, panicked>>
    /\ UNCHANGED <<now, mu, unstored, ioVars>>

\* A mutant of PublishLocked: the event is appended whether or not store is
\* set.
PublishLocked_IDBeforeStore(p) ==
    LET c == call[p]
        id == yieldID(events)
        e == Event(id, c.ts, c.topic, c.type, c.payload)
        targets == {s \in subscribers : matches(subTopic[s], e)}
    IN
    /\ panicked = "none"
    /\ pc[p] = "lock"
    /\ mu = "free"
    /\ IF c.store /\ conflict(events, c.topic, c.lastID)
       THEN /\ ret' = [ret EXCEPT ![p] = [id |-> <<>>, err |-> ErrConflict]]
            /\ pc' = [pc EXCEPT ![p] = "idle"]
            /\ call' = [call EXCEPT ![p].ts = 0]
            /\ UNCHANGED <<busVars, subVars, panicked>>
       ELSE IF id = "panic"
       THEN /\ panicked' = "eventbus: invalid id"
            /\ UNCHANGED <<busVars, subVars, pc, call, ret>>
       ELSE /\ events' = IF c.store THEN Append(events, e) ELSE events
            /\ offered' = [s \in Subs |->
                   IF s \in targets THEN Append(offered[s], e) ELSE offered[s]]
            /\ chanBuf' = [s \in Subs |->
                   IF s \in targets /\ ~chanClosed[s] /\ ~handsOff(waiting[s])
                   THEN trySend(chanBuf[s], chanCap[s], e) ELSE chanBuf[s]]
            /\ received' = [s \in Subs |->
                   IF s \in targets /\ ~chanClosed[s] /\ handsOff(waiting[s])
                   THEN Append(received[s], e) ELSE received[s]]
            /\ waiting' = [s \in Subs |->
                   waiting[s] /\ ~(s \in targets /\ ~chanClosed[s])]
            /\ panicked' = IF \E s \in targets : chanClosed[s]
                           THEN "send on closed channel" ELSE panicked
            /\ ret' = [ret EXCEPT ![p] = [id |-> id, err |-> ErrNone]]
            /\ pc' = [pc EXCEPT ![p] = "idle"]
            /\ call' = [call EXCEPT ![p].ts = 0]
            /\ UNCHANGED <<subscribers, subTopic, fromID, chanCap, chanClosed,
                           history, replayPos, closePc, closeCalls, subErr>>
    /\ UNCHANGED <<now, mu, unstored, ioVars>>

PublishLocked_StoreUnstored(p) ==
    LET c == call[p]
        id == IF c.store THEN yieldID(events) ELSE <<>>
        e == Event(id, c.ts, c.topic, c.type, c.payload)
        targets == {s \in subscribers : matches(subTopic[s], e)}
    IN
    /\ panicked = "none"
    /\ pc[p] = "lock"
    /\ mu = "free"
    /\ IF c.store /\ conflict(events, c.topic, c.lastID)
       THEN /\ ret' = [ret EXCEPT ![p] = [id |-> <<>>, err |-> ErrConflict]]
            /\ pc' = [pc EXCEPT ![p] = "idle"]
            /\ call' = [call EXCEPT ![p].ts = 0]
            /\ UNCHANGED <<busVars, subVars, panicked>>
       ELSE IF id = "panic"
       THEN /\ panicked' = "eventbus: invalid id"
            /\ UNCHANGED <<busVars, subVars, pc, call, ret>>
       ELSE /\ events' = Append(events, e)
            /\ offered' = [s \in Subs |->
                   IF s \in targets THEN Append(offered[s], e) ELSE offered[s]]
            /\ chanBuf' = [s \in Subs |->
                   IF s \in targets /\ ~chanClosed[s] /\ ~handsOff(waiting[s])
                   THEN trySend(chanBuf[s], chanCap[s], e) ELSE chanBuf[s]]
            /\ received' = [s \in Subs |->
                   IF s \in targets /\ ~chanClosed[s] /\ handsOff(waiting[s])
                   THEN Append(received[s], e) ELSE received[s]]
            /\ waiting' = [s \in Subs |->
                   waiting[s] /\ ~(s \in targets /\ ~chanClosed[s])]
            /\ panicked' = IF \E s \in targets : chanClosed[s]
                           THEN "send on closed channel" ELSE panicked
            /\ ret' = [ret EXCEPT ![p] = [id |-> id, err |-> ErrNone]]
            /\ pc' = [pc EXCEPT ![p] = "idle"]
            /\ call' = [call EXCEPT ![p].ts = 0]
            /\ UNCHANGED <<subscribers, subTopic, fromID, chanCap, chanClosed,
                           history, replayPos, closePc, closeCalls, subErr>>
    /\ UNCHANGED <<now, mu, unstored, ioVars>>

\* publish, the critical section: the guard, yieldID and the append (when
\* store), then the non-blocking send to every registered subscriber whose
\* topic matches: handed to a consumer blocked in a receive, else buffered
\* or dropped.
PublishLocked(p) ==
    LET c == call[p]
        id == IF c.store THEN yieldID(events) ELSE <<>>
        e == Event(id, c.ts, c.topic, c.type, c.payload)
        targets == {s \in subscribers : matches(subTopic[s], e)}
    IN
    /\ panicked = "none"
    /\ pc[p] = "lock"
    /\ mu = "free"
    /\ IF c.store /\ conflict(events, c.topic, c.lastID)
       THEN /\ ret' = [ret EXCEPT ![p] = [id |-> <<>>, err |-> ErrConflict]]
            /\ pc' = [pc EXCEPT ![p] = "idle"]
            /\ call' = [call EXCEPT ![p].ts = 0]
            /\ UNCHANGED <<busVars, subVars, panicked>>
       ELSE IF id = "panic"
       THEN /\ panicked' = "eventbus: invalid id"
            /\ UNCHANGED <<busVars, subVars, pc, call, ret>>
       ELSE /\ events' = IF c.store THEN Append(events, e) ELSE events
            /\ offered' = [s \in Subs |->
                   IF s \in targets THEN Append(offered[s], e) ELSE offered[s]]
            /\ chanBuf' = [s \in Subs |->
                   IF s \in targets /\ ~chanClosed[s] /\ ~handsOff(waiting[s])
                   THEN trySend(chanBuf[s], chanCap[s], e) ELSE chanBuf[s]]
            /\ received' = [s \in Subs |->
                   IF s \in targets /\ ~chanClosed[s] /\ handsOff(waiting[s])
                   THEN Append(received[s], e) ELSE received[s]]
            /\ waiting' = [s \in Subs |->
                   waiting[s] /\ ~(s \in targets /\ ~chanClosed[s])]
            /\ panicked' = IF \E s \in targets : chanClosed[s]
                           THEN "send on closed channel" ELSE panicked
            /\ ret' = [ret EXCEPT ![p] = [id |-> id, err |-> ErrNone]]
            /\ pc' = [pc EXCEPT ![p] = "idle"]
            /\ call' = [call EXCEPT ![p].ts = 0]
            /\ UNCHANGED <<subscribers, subTopic, fromID, chanCap, chanClosed,
                           history, replayPos, closePc, closeCalls, subErr>>
    /\ UNCHANGED <<now, mu, unstored, ioVars>>

\* ------------------------------------------------------------ subscribe
\* A mutant of SubscribeWithBufferSize: the buffer size is checked before
\* the topic.
SubscribeWithBufferSize_BufferCheckFirst(s, topic, from, bufferSize) ==
    /\ panicked = "none"
    /\ subErr[s] = "none"
    /\ IF bufferSize < 0
       THEN /\ subErr' = [subErr EXCEPT ![s] = ErrInvalidBuffer]
            /\ UNCHANGED <<subscribers, subTopic, fromID, chanCap, history>>
       ELSE IF topic = ""
       THEN /\ subErr' = [subErr EXCEPT ![s] = ErrNoTopic]
            /\ UNCHANGED <<subscribers, subTopic, fromID, chanCap, history>>
       ELSE /\ mu = "free"
            /\ subTopic' = [subTopic EXCEPT ![s] = topic]
            /\ fromID' = [fromID EXCEPT ![s] = from]
            /\ chanCap' = [chanCap EXCEPT ![s] = bufferSize]
            /\ history' = [history EXCEPT ![s] = filter(events, Query(topic, from))]
            /\ subscribers' = subscribers \cup {s}
            /\ subErr' = [subErr EXCEPT ![s] = ErrNone]
    /\ UNCHANGED <<events, chanBuf, chanClosed, replayPos, closePc, closeCalls, received, waiting,
                   offered, pubVars, now, mu, unstored, ioVars, panicked>>

\* SubscribeWithBufferSize: the two argument checks; then the subscriber
\* object, under the lock the historical slice and the registration, and the
\* replay goroutine is started with that slice (it has sent nothing yet).
SubscribeWithBufferSize(s, topic, from, bufferSize) ==
    /\ panicked = "none"
    /\ subErr[s] = "none"
    /\ IF topic = ""
       THEN /\ subErr' = [subErr EXCEPT ![s] = ErrNoTopic]
            /\ UNCHANGED <<subscribers, subTopic, fromID, chanCap, history>>
       ELSE IF bufferSize < 0
       THEN /\ subErr' = [subErr EXCEPT ![s] = ErrInvalidBuffer]
            /\ UNCHANGED <<subscribers, subTopic, fromID, chanCap, history>>
       ELSE /\ mu = "free"
            /\ subTopic' = [subTopic EXCEPT ![s] = topic]
            /\ fromID' = [fromID EXCEPT ![s] = from]
            /\ chanCap' = [chanCap EXCEPT ![s] = bufferSize]
            /\ history' = [history EXCEPT ![s] = filter(events, Query(topic, from))]
            /\ subscribers' = subscribers \cup {s}
            /\ subErr' = [subErr EXCEPT ![s] = ErrNone]
    /\ UNCHANGED <<events, chanBuf, chanClosed, replayPos, closePc, closeCalls, received, waiting,
                   offered, pubVars, now, mu, unstored, ioVars, panicked>>

\* A mutant of Subscribe: the default is taken for the zero value, an
\* unbuffered channel.
Subscribe_Unbuffered(s, topic, from) == SubscribeWithBufferSize(s, topic, from, 0)

\* Subscribe: SubscribeWithBufferSize with the default buffer size.
Subscribe(s, topic, from) == SubscribeWithBufferSize(s, topic, from, DefaultBufferSize)

\* A mutant of ReplaySend: every iteration sends the last event of the slice
\* (the goroutine reads a variable that the loop has already advanced).
ReplaySend_LastOnly(s) ==
    /\ panicked = "none"
    /\ replayPos[s] < Len(history[s])
    /\ replayPos' = [replayPos EXCEPT ![s] = @ + 1]
    /\ IF chanClosed[s]
       THEN /\ panicked' = "send on closed channel"
            /\ UNCHANGED chanBuf
       ELSE /\ chanBuf' = [chanBuf EXCEPT ![s] =
                   trySend(@, chanCap[s], history[s][Len(history[s])])]
            /\ UNCHANGED panicked
    /\ UNCHANGED <<busVars, subTopic, fromID, chanCap, chanClosed, history, closePc,
                   closeCalls, subErr, received, waiting, offered, pubVars, now, mu, unstored, ioVars>>

\* One iteration of the replay goroutine: a non-blocking send of the next
\* historical event (handed to a consumer blocked in a receive, else
\* buffered or dropped); a send on a closed channel panics.
ReplaySend(s) ==
    /\ panicked = "none"
    /\ replayPos[s] < Len(history[s])
    /\ replayPos' = [replayPos EXCEPT ![s] = @ + 1]
    /\ IF chanClosed[s]
       THEN /\ panicked' = "send on closed channel"
            /\ UNCHANGED <<chanBuf, received, waiting>>
       ELSE IF handsOff(waiting[s])
       THEN /\ received' = [received EXCEPT ![s] =
                   Append(@, history[s][replayPos[s] + 1])]
            /\ waiting' = [waiting EXCEPT ![s] = FALSE]
            /\ UNCHANGED <<chanBuf, panicked>>
       ELSE /\ chanBuf' = [chanBuf EXCEPT ![s] =
                   trySend(@, chanCap[s], history[s][replayPos[s] + 1])]
            /\ UNCHANGED <<received, waiting, panicked>>
    /\ UNCHANGED <<busVars, subTopic, fromID, chanCap, chanClosed, history, closePc,
                   closeCalls, subErr, offered, pubVars, now, mu, unstored, ioVars>>

\* The consumer starts a receive from Subscription.C while the channel holds
\* nothing: it blocks until a send or the close of the channel.
RecvBlock(s) ==
    /\ panicked = "none"
    /\ subErr[s] = ErrNone
    /\ chanBuf[s] = <<>>
    /\ ~chanClosed[s]
    /\ ~waiting[s]
    /\ waiting' = [waiting EXCEPT ![s] = TRUE]
    /\ UNCHANGED <<busVars, subTopic, fromID, chanCap, chanBuf, chanClosed, history,
                   replayPos, closePc, closeCalls, subErr, received, offered, pubVars,
                   now, mu, unstored, ioVars, panicked>>

\* The consumer receives the oldest buffered event from Subscription.C.
Recv(s) ==
    /\ panicked = "none"
    /\ chanBuf[s] # <<>>
    /\ received' = [received EXCEPT ![s] = Append(@, Head(chanBuf[s]))]
    /\ chanBuf' = [chanBuf EXCEPT ![s] = Tail(@)]
    /\ UNCHANGED <<busVars, subTopic, fromID, chanCap, chanClosed, history, replayPos,
                   closePc, closeCalls, subErr, offered, waiting, pubVars, now, mu, unstored,
                   ioVars, panicked>>

\* A mutant of CloseLocked: the subscriber is found and its channel kept in
\* ch, but it is not deleted from the registry.
CloseLocked_KeepRegistered(s) ==
    /\ panicked = "none"
    /\ subErr[s] = ErrNone
    /\ mu = "free"
    /\ closePc[s] = "none"
    /\ s \in subscribers
    /\ closePc' = [closePc EXCEPT ![s] = "unlocked"]
    /\ UNCHANGED <<busVars, subTopic, fromID, chanCap, chanBuf, chanClosed, history,
                   replayPos, closeCalls, subErr, received, waiting, offered, pubVars, now, mu,
                   unstored, ioVars, panicked>>

\* A mutant of CloseLocked: the registry is not consulted, every call keeps
\* the channel in ch.
CloseLocked_NoRegistryCheck(s) ==
    /\ panicked = "none"
    /\ subErr[s] = ErrNone
    /\ mu = "free"
    /\ closePc[s] # "unlocked"
    /\ closeCalls[s] < MaxCloses
    /\ subscribers' = subscribers \ {s}
    /\ closePc' = [closePc EXCEPT ![s] = "unlocked"]
    /\ UNCHANGED <<events, subTopic, fromID, chanCap, chanBuf, chanClosed, history,
                   replayPos, closeCalls, subErr, received, waiting, offered, pubVars, now, mu,
                   unstored, ioVars, panicked>>

\* Subscription.Close, the critical section. A registered subscriber is
\* removed from the registry and its channel kept in the local ch; for a
\* subscriber that is not registered ch stays nil and the call returns
\* without closing anything.
CloseLocked(s) ==
    /\ panicked = "none"
    /\ subErr[s] = ErrNone
    /\ mu = "free"
    /\ closeCalls[s] + (IF closePc[s] = "unlocked" THEN 1 ELSE 0) < MaxCloses
    /\ IF s \in subscribers
       THEN /\ subscribers' = subscribers \ {s}
            /\ closePc' = [closePc EXCEPT ![s] = "unlocked"]
            /\ UNCHANGED closeCalls
       ELSE /\ closeCalls' = [closeCalls EXCEPT ![s] = @ + 1]
            /\ UNCHANGED <<subscribers, closePc>>
    /\ UNCHANGED <<events, subTopic, fromID, chanCap, chanBuf, chanClosed, history,
                   replayPos, subErr, received, waiting, offered, pubVars, now, mu, unstored, ioVars, panicked>>

\* Subscription.Close, after the lock is released: close(ch) for the call
\* whose ch is not nil, which then returns (a consumer blocked in a receive
\* is woken by the close). Closing a closed channel panics.
CloseChan(s) ==
    /\ panicked = "none"
    /\ closePc[s] = "unlocked"
    /\ closePc' = [closePc EXCEPT ![s] = "done"]
    /\ IF chanClosed[s]
       THEN /\ panicked' = "close of closed channel"
            /\ UNCHANGED <<chanClosed, closeCalls, waiting>>
       ELSE /\ chanClosed' = [chanClosed EXCEPT ![s] = TRUE]
            /\ closeCalls' = [closeCalls EXCEPT ![s] = @ + 1]
            /\ waiting' = [waiting EXCEPT ![s] = FALSE]
            /\ UNCHANGED panicked
    /\ UNCHANGED <<busVars, subTopic, fromID, chanCap, chanBuf, history, replayPos,
                   subErr, received, offered, pubVars, now, mu, unstored, ioVars>>

\* ------------------------------------------------------------ queries on the log
\* A mutant of FnCall: the loop ranges over the log as it is now, not over
\* the slice taken under the lock.
FnCall_LiveLog ==
    LET live == filter(events, scan.q)
    IN
    /\ panicked = "none"
    /\ scan.pc = "calling"
    /\ Len(scan.passed) < Len(live)
    /\ scan' = [scan EXCEPT !.passed = Append(@, live[Len(scan.passed) + 1])]
    /\ UNCHANGED <<busVars, subVars, pubVars, now, mu, unstored, dumped, dumping, loadErr, loading, panicked>>

\* A mutant of ForEachEventLocked: the unlock is deferred to the return of
\* ForEachEvent, so that fn runs with the lock held.
ForEachEventLocked_DeferUnlock(q) ==
    /\ panicked = "none"
    /\ scan.pc = "none"
    /\ mu = "free"
    /\ mu' = "scan"
    /\ scan' = [scan EXCEPT !.pc = "calling", !.topic = q.Topic, !.q = q, !.log = events,
                            !.events = filter(events, q)]
    /\ UNCHANGED <<busVars, subVars, pubVars, now, unstored, dumped, dumping, loadErr, loading, panicked>>

\* ForEachEvent(q, fn), the critical section: Lock; events := b.filter(q);
\* Unlock. The slice `events` is what filter keeps of the log. The predicate
\* q.PayloadFilter runs inside filter, with the lock held: a predicate that
\* calls the bus waits for the lock its own goroutine holds, so that the
\* call never leaves the critical section and the lock is never released.
ForEachEventLocked(q) ==
    /\ panicked = "none"
    /\ scan.pc = "none"
    /\ mu = "free"
    /\ IF q.PayloadFilter.callsBus /\ callsPayloadFilter(events, q)
       THEN /\ mu' = "scan"
            /\ scan' = [scan EXCEPT !.pc = "blocked", !.topic = q.Topic, !.q = q,
                                    !.log = events]
       ELSE /\ mu' = mu
            /\ scan' = [scan EXCEPT !.pc = "calling", !.topic = q.Topic, !.q = q,
                                    !.log = events, !.events = filter(events, q)]
    /\ UNCHANGED <<busVars, subVars, pubVars, now, unstored, dumped, dumping, loadErr, loading, panicked>>

\* One iteration of the loop of ForEachEvent: fn is called with the next
\* element of the slice.
FnCall ==
    /\ panicked = "none"
    /\ scan.pc = "calling"
    /\ Len(scan.passed) < Len(scan.events)
    /\ scan' = [scan EXCEPT !.passed = Append(@, scan.events[Len(scan.passed) + 1])]
    /\ UNCHANGED <<busVars, subVars, pubVars, now, mu, unstored, dumped, dumping, loadErr, loading, panicked>>

\* ForEachEvent returns once the loop has passed every element of the slice.
ForEachEventReturn ==
    /\ panicked = "none"
    /\ scan.pc = "calling"
    /\ Len(scan.passed) = Len(scan.events)
    /\ scan' = [scan EXCEPT !.pc = "done"]
    /\ UNCHANGED <<busVars, subVars, pubVars, now, mu, unstored, dumped, dumping, loadErr, loading, panicked>>

\* The goroutine that called ForEachEvent is the one that runs fn, so a call
\* fn makes on the bus is a call of that goroutine.
FnCaller == "p1"

\* fn is running: the loop has called it and it is not inside Publish.
InFn == scan.pc = "calling" /\ Len(scan.passed) > 0 /\ pc[FnCaller] = "idle"

\* fn calls Publish on the bus that is being scanned; it does not try again
\* once a Publish of its own has returned ErrConflict.
FnPublish(topic, type, payload, lastID) ==
    /\ InFn
    /\ ret[FnCaller].err # ErrConflict
    /\ PublishCall(FnCaller, topic, type, payload, lastID, TRUE)

\* fn calls End on the bus that is being scanned: Lock; read; Unlock.
FnEnd ==
    /\ panicked = "none"
    /\ InFn
    /\ mu = "free"
    /\ scan' = [scan EXCEPT !.fnEnd = End(events)]
    /\ UNCHANGED <<busVars, subVars, pubVars, now, mu, unstored, dumped, dumping, loadErr, loading, panicked>>

\* fn calls ForEachEvent on the bus that is being scanned, with the query of
\* the outer call: Lock; filter; Unlock (the inner fn does nothing).
FnForEachEvent ==
    /\ panicked = "none"
    /\ InFn
    /\ mu = "free"
    /\ scan' = [scan EXCEPT !.fnEvents = filter(events, scan.q)]
    /\ UNCHANGED <<busVars, subVars, pubVars, now, mu, unstored, dumped, dumping, loadErr, loading, panicked>>

\* fn calls Subscribe on the bus that is being scanned.
FnSubscribe(s, topic, from) ==
    /\ InFn
    /\ Subscribe(s, topic, from)

\* The loop of ForEachEvent goes on once fn has returned.
LoopCall == pc[FnCaller] = "idle" /\ FnCall
LoopReturn == pc[FnCaller] = "idle" /\ ForEachEventReturn

\* ------------------------------------------------------------ snapshots
\* json.Marshal of a payload: null for nil, a JSON string for a string, an
\* object for a struct or a map.
EncodePayload(v) ==
    CASE v = NilPayload -> "null"
      [] v = "string" -> "string"
      [] OTHER -> "object"

\* json.Unmarshal of a JSON value into a field of type any: nil for null, a
\* string for a JSON string, a map[string]any for an object.
DecodePayload(j) ==
    CASE j = "null" -> NilPayload
      [] j = "string" -> "string"
      [] OTHER -> "map"

\* json.Marshal of an Event: an object with the keys of the struct tags; the
\* timestamp is written as text, at full precision.
EncodeEvent(e) ==
    [id |-> e.ID, timestamp |-> FormatUint(e.Timestamp),
     topic |-> e.Topic, type |-> e.Type, payload |-> EncodePayload(e.Payload)]

\* enc.Encode(events): the array of the encoded events, in order.
Encode(evs) == Text(TRUE, [i \in 1..Len(evs) |-> EncodeEvent(evs[i])])

\* json.Unmarshal of one object into an Event; the id, a string, is taken as
\* it is.
DecodeEvent(j) ==
    Event(j.id, ParseUint(j.timestamp), j.topic, j.type, DecodePayload(j.payload))

\* json.NewDecoder(r).Decode(&events): an error for a reader that does not
\* hold an array of event objects or holds a timestamp that does not parse.
Decode(text) ==
    IF ~text.valid THEN [err |-> ErrDecode, events |-> <<>>]
    ELSE IF \E i \in 1..Len(text.array) : ParseUint(text.array[i].timestamp) = ParseError
    THEN [err |-> ErrDecode, events |-> <<>>]
    ELSE [err |-> ErrNone,
          events |-> [i \in 1..Len(text.array) |-> DecodeEvent(text.array[i])]]

\* SaveToFile, up to the call of Dump: os.Create truncates the file, which
\* is the writer of the Dump that follows; when os.Create fails SaveToFile
\* returns its error, the file is as it was and Dump is not called.
SaveToFileCreate(d, ok) ==
    /\ panicked = "none"
    /\ dumping[d].pc = "none"
    /\ IF ok
       THEN /\ dumping' = [dumping EXCEPT ![d] =
                              [pc |-> "created", copy |-> <<>>, err |-> "none"]]
            /\ dumped' = NoDump
       ELSE /\ dumping' = [dumping EXCEPT ![d] =
                              [pc |-> "none", copy |-> <<>>, err |-> ErrCreate]]
            /\ UNCHANGED dumped
    /\ UNCHANGED <<busVars, subVars, pubVars, now, mu, unstored, scan, loadErr, loading, panicked>>

\* Dump, the critical section: Lock; copy b.events; Unlock.
DumpLocked(d) ==
    /\ panicked = "none"
    /\ dumping[d].pc \in {"none", "created"}
    /\ mu = "free"
    /\ dumping' = [dumping EXCEPT ![d] = [pc |-> "copied", copy |-> events, err |-> "none"]]
    /\ UNCHANGED <<busVars, subVars, pubVars, now, mu, unstored, scan, dumped, loadErr, loading, panicked>>

\* Dump, after the unlock: enc.Encode(events) writes the copy to w and Dump
\* returns. A writer that fails is left with a part of the text, which is
\* not a JSON array, and Dump returns its error.
DumpWrite(d, ok) ==
    /\ panicked = "none"
    /\ dumping[d].pc = "copied"
    /\ dumped' = IF ok THEN Encode(dumping[d].copy) ELSE Malformed
    /\ dumping' = [dumping EXCEPT ![d] = [pc |-> "none", copy |-> @.copy,
                                          err |-> IF ok THEN ErrNone ELSE ErrWrite]]
    /\ UNCHANGED <<busVars, subVars, pubVars, now, mu, unstored, scan, loadErr, loading, panicked>>

\* Load, up to b.mu.Lock(): json.NewDecoder(r).Decode reads r without the
\* lock. A decoding error is returned and changes nothing; else the call
\* holds the decoded slice and goes on to the lock.
LoadDecode(l, text) ==
    LET decoded == Decode(text)
    IN
    /\ panicked = "none"
    /\ loading[l].pc = "none"
    /\ IF decoded.err # ErrNone
       THEN /\ loadErr' = decoded.err
            /\ UNCHANGED loading
       ELSE /\ loading' = [loading EXCEPT ![l] = [pc |-> "decoded", events |-> decoded.events]]
            /\ UNCHANGED loadErr
    /\ UNCHANGED <<busVars, subVars, pubVars, now, mu, unstored, scan, dumped, dumping, panicked>>

\* A mutant of LoadInstall: the decoded events are appended to the log.
LoadInstall_Append(l) ==
    /\ panicked = "none"
    /\ loading[l].pc = "decoded"
    /\ mu = "free"
    /\ events' = events \o loading[l].events
    /\ loadErr' = ErrNone
    /\ loading' = [loading EXCEPT ![l] = NoLoading]
    /\ UNCHANGED <<subscribers, subVars, pubVars, now, mu, unstored, scan, dumped, dumping, panicked>>

\* Load, the critical section and the return: b.events becomes a copy of
\* the decoded slice, under the lock. Nothing else is written.
LoadInstall(l) ==
    /\ panicked = "none"
    /\ loading[l].pc = "decoded"
    /\ mu = "free"
    /\ events' = loading[l].events
    /\ loadErr' = ErrNone
    /\ loading' = [loading EXCEPT ![l] = NoLoading]
    /\ UNCHANGED <<subscribers, subVars, pubVars, now, mu, unstored, scan, dumped, dumping, panicked>>

\* The contents of the readers given to Load: a malformed one, and every
\* array of up to MaxLoad event objects of one topic whose ids are taken
\* from LoadIDs, in any order and with repetitions.
Snapshots ==
    {Malformed} \cup
    {Text(TRUE, array) :
        array \in UNION {[1..n -> {[id |-> id, timestamp |-> <<1>>, topic |-> "a",
                                     type |-> "T", payload |-> "null"] :
                                        id \in LoadIDs}] : n \in 0..MaxLoad}}

\* ------------------------------------------------------------ specification
\* Every operation, every caller: Publish with any topic and any lastID a
\* caller can hold, PublishUnstored, SubscribeWithBufferSize with any topic
\* filter and fromID, and the life of the subscription it returns.
Next ==
    \/ Tick
    \/ \E p \in Publishers, topic \in PublishTopics, type \in Types, payload \in OnePayload,
          lastID \in KnownIDs(events) : PublishCall(p, topic, type, payload, lastID, TRUE)
    \/ \E p \in Publishers, topic \in PublishTopics, type \in Types, payload \in OnePayload :
          PublishCall(p, topic, type, payload, <<>>, FALSE)
    \/ \E p \in Publishers : PublishLocked(p)
    \/ \E s \in Subs, topic \in SubscribeTopics \cup {NoTopic}, from \in KnownIDs(events),
          bufferSize \in -1..MaxBuf : SubscribeWithBufferSize(s, topic, from, bufferSize)
    \/ \E s \in Subs, topic \in SubscribeTopics \cup {NoTopic}, from \in KnownIDs(events) :
          Subscribe(s, topic, from)
    \/ \E s \in Subs : ReplaySend(s)
    \/ \E s \in Subs : Recv(s)
    \/ \E s \in Subs : CloseLocked(s)
    \/ \E s \in Subs : CloseChan(s)
    \/ \E s \in Subs : RecvBlock(s)
    \/ \E topic \in SubscribeTopics : ForEachEventLocked(Query(topic, <<>>))
    \/ FnCall
    \/ ForEachEventReturn
    \/ \E d \in Dumpers, ok \in BOOLEAN : SaveToFileCreate(d, ok)
    \/ \E d \in Dumpers : DumpLocked(d)
    \/ \E d \in Dumpers, ok \in BOOLEAN : DumpWrite(d, ok)
    \/ \E l \in Loaders, text \in Snapshots \cup {dumped} : LoadDecode(l, text)
    \/ \E l \in Loaders : LoadInstall(l)

Spec == Init /\ [][Next]_vars

\* The write side of Spec: the clock and concurrent publishers, one with
\* every topic and the other with one, both with every lastID they can hold; no subscriber is created (a subscriber changes
\* neither the log nor what Publish returns).
GuardNext ==
    \/ Tick
    \/ \E topic \in RealTopics, type \in Types, payload \in OnePayload, lastID \in HeldIDs(events) :
          PublishCall("p1", topic, type, payload, lastID, TRUE)
    \/ \E topic \in OneTopic, type \in Types, payload \in OnePayload, lastID \in HeldIDs(events) :
          PublishCall("p2", topic, type, payload, lastID, TRUE)
    \/ \E p \in Publishers : PublishLocked(p)

GuardSpec == Init /\ [][GuardNext]_vars

\* The delivery side of Spec: concurrent publishers appending at End() on
\* the ordinary topics, and a subscriber that replays everything (Start()) or
\* nothing (End()), with its replay goroutine, its consumer and its Close
\* (called once).
DeliveryNext ==
    \/ \E p \in Publishers, topic \in Topics, type \in Types, payload \in OnePayload :
          PublishCall(p, topic, type, payload, End(events), TRUE)
    \/ \E p \in Publishers : PublishLocked(p)
    \/ \E s \in OneSub, topic \in SubscribeTopics, from \in {Start, End(events)},
          bufferSize \in 1..MaxBuf : SubscribeWithBufferSize(s, topic, from, bufferSize)
    \/ \E s \in OneSub : ReplaySend(s)
    \/ \E s \in OneSub : Recv(s)
    \/ \E s \in OneSub : s \in subscribers /\ CloseLocked(s)
    \/ \E s \in OneSub : CloseChan(s)

DeliverySpec == Init /\ [][DeliveryNext]_vars

\* Fan-out to live subscribers: a publisher on the ordinary topics, with
\* Start() or End() as lastID, and two subscribers registered at End()
\* (nothing to replay), each with its own buffer size and its own consumer.
FanoutNext ==
    \/ \E p \in OnePublisher, topic \in Topics, type \in Types, payload \in OnePayload,
          lastID \in {Start, End(events)} : PublishCall(p, topic, type, payload, lastID, TRUE)
    \/ \E p \in OnePublisher : PublishLocked(p)
    \/ \E s \in Subs, topic \in SubscribeTopics, bufferSize \in 1..MaxBuf :
          SubscribeWithBufferSize(s, topic, End(events), bufferSize)
    \/ \E s \in Subs : Recv(s)

FanoutSpec == Init /\ [][FanoutNext]_vars

\* Fan-out to subscribers that never consume: FanoutNext without the
\* consumers.
NoConsumerNext ==
    \/ \E p \in OnePublisher, topic \in Topics, type \in Types, payload \in OnePayload,
          lastID \in {Start, End(events)} : PublishCall(p, topic, type, payload, lastID, TRUE)
    \/ \E p \in OnePublisher : PublishLocked(p)
    \/ \E s \in Subs, topic \in SubscribeTopics, bufferSize \in 1..MaxBuf :
          SubscribeWithBufferSize(s, topic, End(events), bufferSize)

NoConsumerSpec == Init /\ [][NoConsumerNext]_vars

\* The same with the scheduling the mutex gives: a caller waiting for b.mu
\* gets it (every critical section is finite), so a publish that has reached
\* the lock runs its critical section.
NoConsumerLiveSpec == NoConsumerSpec /\ \A p \in OnePublisher : WF_vars(PublishLocked(p))

\* Argument validation: Publish, PublishUnstored, SubscribeWithBufferSize and
\* Subscribe called with valid and with invalid arguments (an empty topic, a
\* negative buffer size) on a bus that has events of one topic, subscribers
\* registered at End(), and deliveries queued for them.
RejectNext ==
    \/ \E p \in OnePublisher, topic \in OneTopic \cup {NoTopic}, type \in Types, payload \in OnePayload :
          PublishCall(p, topic, type, payload, End(events), TRUE)
    \/ \E p \in OnePublisher, topic \in OneTopic \cup {NoTopic}, type \in Types, payload \in OnePayload :
          PublishCall(p, topic, type, payload, <<>>, FALSE)
    \/ \E p \in OnePublisher : PublishLocked(p)
    \/ \E s \in Subs, topic \in SubscribeTopics \cup {NoTopic}, bufferSize \in BufferSizes :
          SubscribeWithBufferSize(s, topic, End(events), bufferSize)
    \/ \E s \in Subs, topic \in SubscribeTopics \cup {NoTopic} :
          Subscribe(s, topic, End(events))

RejectSpec == Init /\ [][RejectNext]_vars

\* No Subscribe or SubscribeWithBufferSize call has been made.
NoSubscribeCall == \A s \in Subs : subErr[s] = "none"

\* Replay for a reader that subscribes to a quiet bus: a publisher fills the
\* log while the clock runs (two events published with no Tick between them
\* carry the same timestamp), then, with no publish in progress, one
\* subscriber registers from any position a caller can hold; its replay
\* goroutine and its consumer run, and nothing is published any more.
ReplayNext ==
    \/ NoSubscribeCall /\ Tick
    \/ \E p \in OnePublisher, topic \in Topics, type \in Types, payload \in OnePayload :
          NoSubscribeCall /\ PublishCall(p, topic, type, payload, End(events), TRUE)
    \/ \E p \in OnePublisher : PublishLocked(p)
    \/ \E s \in OneSub, topic \in SubscribeTopics, from \in KnownIDs(events),
          bufferSize \in 1..MaxBuf :
          /\ \A p \in OnePublisher : pc[p] = "idle"
          /\ SubscribeWithBufferSize(s, topic, from, bufferSize)
    \/ \E s \in OneSub : ReplaySend(s)
    \/ \E s \in OneSub : Recv(s)

ReplaySpec == Init /\ [][ReplayNext]_vars

\* The same with the scheduling of goroutines: the replay goroutine, always
\* runnable since its sends never block, runs each of its iterations.
ReplayLiveSpec == ReplaySpec /\ \A s \in OneSub : WF_vars(ReplaySend(s))

\* The life of one subscription whose Close is called up to MaxCloses times,
\* sequentially or concurrently, while a publisher appends at End(), the
\* replay goroutine runs and the consumer reads.
CloseNext ==
    \/ \E p \in OnePublisher, topic \in Topics, type \in Types, payload \in OnePayload :
          PublishCall(p, topic, type, payload, End(events), TRUE)
    \/ \E p \in OnePublisher : PublishLocked(p)
    \/ \E s \in OneSub, topic \in SubscribeTopics, from \in {Start, End(events)},
          bufferSize \in 1..MaxBuf : SubscribeWithBufferSize(s, topic, from, bufferSize)
    \/ \E s \in OneSub : ReplaySend(s)
    \/ \E s \in OneSub : Recv(s)
    \/ \E s \in OneSub : CloseLocked(s)
    \/ \E s \in OneSub : CloseChan(s)

CloseSpec == Init /\ [][CloseNext]_vars

\* An unbuffered subscription (bufferSize 0) that replays everything or
\* nothing, while a publisher appends at End() and the consumer, between two
\* events, is either busy or blocked in a receive.
UnbufferedNext ==
    \/ \E p \in OnePublisher, topic \in Topics, type \in Types, payload \in OnePayload :
          PublishCall(p, topic, type, payload, End(events), TRUE)
    \/ \E p \in OnePublisher : PublishLocked(p)
    \/ \E s \in OneSub, topic \in SubscribeTopics, from \in {Start, End(events)} :
          SubscribeWithBufferSize(s, topic, from, 0)
    \/ \E s \in OneSub : ReplaySend(s)
    \/ \E s \in OneSub : RecvBlock(s)

UnbufferedSpec == Init /\ [][UnbufferedNext]_vars

\* Load on a bus in use: a publisher appends at End() on the topic of the
\* snapshots, a subscriber registered at End() queues what is published,
\* a ForEachEvent call scans the log, and Load is called once, at any
\* moment, with any of Snapshots.
LoadNext ==
    \/ \E p \in OnePublisher, topic \in OneTopic, type \in Types, payload \in OnePayload :
          PublishCall(p, topic, type, payload, End(events), TRUE)
    \/ \E p \in OnePublisher : PublishLocked(p)
    \/ \E s \in OneSub, topic \in OneTopic, bufferSize \in 1..MaxBuf :
          SubscribeWithBufferSize(s, topic, End(events), bufferSize)
    \/ \E topic \in OneTopic : ForEachEventLocked(Query(topic, <<>>))
    \/ FnCall
    \/ ForEachEventReturn
    \/ \E l \in OneLoader, text \in Snapshots : loadErr = "none" /\ LoadDecode(l, text)
    \/ \E l \in OneLoader : LoadInstall(l)

LoadSpec == Init /\ [][LoadNext]_vars

\* Persistence: a publisher appends at End() on the ordinary topics while
\* the clock runs; Dump writes the log at any moment and Load reads back what
\* the last Dump wrote, into the bus as it is then (empty, the same, or
\* further along).
RoundTripNext ==
    \/ Tick
    \/ \E p \in OnePublisher, topic \in Topics, type \in Types, payload \in OnePayload :
          PublishCall(p, topic, type, payload, End(events), TRUE)
    \/ \E p \in OnePublisher : PublishLocked(p)
    \/ \E d \in OneDumper, ok \in BOOLEAN :
          dumping[d].err = "none" /\ SaveToFileCreate(d, ok)
    \/ \E d \in OneDumper : dumping[d].err = "none" /\ DumpLocked(d)
    \/ \E d \in OneDumper, ok \in BOOLEAN : DumpWrite(d, ok)
    \/ \E l \in OneLoader : loadErr = "none" /\ dumped.valid /\ LoadDecode(l, dumped)
    \/ \E l \in OneLoader : LoadInstall(l)

RoundTripSpec == Init /\ [][RoundTripNext]_vars

\* A scan of the log: ForEachEvent is called with a topic or the wildcard,
\* and with any payload predicate or none, at any moment, and a publisher
\* keeps appending at End() on the ordinary topics, with any payload, while
\* the loop of the scan calls fn.
QueryNext ==
    \/ \E p \in OnePublisher, topic \in Topics, type \in Types, payload \in Payloads :
          PublishCall(p, topic, type, payload, End(events), TRUE)
    \/ \E p \in OnePublisher : PublishLocked(p)
    \/ \E topic \in SubscribeTopics, payloadFilter \in PayloadFilters :
          ForEachEventLocked(QueryWith(topic, payloadFilter))
    \/ FnCall
    \/ ForEachEventReturn

QuerySpec == Init /\ [][QueryNext]_vars

\* PublishUnstored among stored publishes: a publisher on one topic, a
\* subscriber of that topic and one of AllTopics, both registered from
\* Start() with a buffer of one event and replayed to, and a reader that
\* scans the whole log and then dumps it, at any moment.
UnstoredNext ==
    \/ \E p \in OnePublisher, topic \in OneTopic, type \in Types, payload \in OnePayload :
          PublishCall(p, topic, type, payload, End(events), TRUE)
    \/ \E p \in OnePublisher, topic \in OneTopic, type \in Types, payload \in OnePayload :
          PublishCall(p, topic, type, payload, <<>>, FALSE)
    \/ \E p \in OnePublisher : PublishLocked(p)
    \/ SubscribeWithBufferSize("s1", "a", Start, 1)
    \/ SubscribeWithBufferSize("s2", AllTopics, Start, 1)
    \/ \E s \in Subs : ReplaySend(s)
    \/ ForEachEventLocked(Query(AllTopics, <<>>))
    \/ FnCall
    \/ ForEachEventReturn
    \/ \E d \in OneDumper : scan.pc = "done" /\ dumping[d].err = "none" /\ DumpLocked(d)
    \/ \E d \in OneDumper : DumpWrite(d, TRUE)

UnstoredSpec == Init /\ [][UnstoredNext]_vars

\* Every operation but Load on one bus: Publish with Start() or End() and
\* PublishUnstored on one topic, a subscription that replays from Start()
\* and is closed, a scan of the whole log and a Dump.
LogNext ==
    \/ \E p \in OnePublisher, topic \in OneTopic, type \in Types, payload \in OnePayload,
          lastID \in {Start, End(events)} : PublishCall(p, topic, type, payload, lastID, TRUE)
    \/ \E p \in OnePublisher, topic \in OneTopic, type \in Types, payload \in OnePayload :
          PublishCall(p, topic, type, payload, <<>>, FALSE)
    \/ \E p \in OnePublisher : PublishLocked(p)
    \/ \E s \in OneSub, topic \in OneTopic :
          SubscribeWithBufferSize(s, topic, Start, 1)
    \/ \E s \in OneSub : ReplaySend(s)
    \/ \E s \in OneSub : s \in subscribers /\ CloseLocked(s)
    \/ \E s \in OneSub : CloseChan(s)
    \/ ForEachEventLocked(Query(AllTopics, <<>>))
    \/ FnCall
    \/ ForEachEventReturn
    \/ \E d \in OneDumper : dumping[d].err = "none" /\ DumpLocked(d)
    \/ \E d \in OneDumper, ok \in BOOLEAN : DumpWrite(d, ok)

LogSpec == Init /\ [][LogNext]_vars

\* The id sequence of a bus that is never loaded: concurrent publishers on
\* the ordinary topics, with Start() or End() as lastID (some calls return
\* ErrConflict), and a scan of one topic at any moment.
SequenceNext ==
    \/ \E p \in Publishers, topic \in Topics, type \in Types, payload \in OnePayload,
          lastID \in {Start, End(events)} : PublishCall(p, topic, type, payload, lastID, TRUE)
    \/ \E p \in Publishers : PublishLocked(p)
    \/ \E topic \in Topics : ForEachEventLocked(Query(topic, <<>>))
    \/ FnCall
    \/ ForEachEventReturn

SequenceSpec == Init /\ [][SequenceNext]_vars

\* Fan-out by topic: Publish at End() and PublishUnstored on the ordinary
\* topics, and two subscribers registered at End() with a single-topic or
\* wildcard filter and a buffer of one event, which nobody reads.
MatchNext ==
    \/ \E p \in OnePublisher, topic \in Topics, type \in Types, payload \in OnePayload :
          PublishCall(p, topic, type, payload, End(events), TRUE)
    \/ \E p \in OnePublisher, topic \in Topics, type \in Types, payload \in OnePayload :
          PublishCall(p, topic, type, payload, <<>>, FALSE)
    \/ \E p \in OnePublisher : PublishLocked(p)
    \/ \E s \in Subs, topic \in SubscribeTopics :
          SubscribeWithBufferSize(s, topic, End(events), 1)

MatchSpec == Init /\ [][MatchNext]_vars

\* The ids a bus of this size can have returned to a caller.
IssuedIDs == {FormatUint(n) : n \in 1..MaxEvents}

\* Stale positions: a publisher on the topic of the snapshots that passes
\* Start() or any id it may have been returned earlier as lastID, on a bus
\* whose log is replaced once by Load, so that an id a caller holds may be
\* the id of no event of the log any more.
StaleNext ==
    \/ \E p \in OnePublisher, topic \in OneTopic, type \in Types, payload \in OnePayload,
          lastID \in {Start} \cup IssuedIDs : PublishCall(p, topic, type, payload, lastID, TRUE)
    \/ \E p \in OnePublisher : PublishLocked(p)
    \/ \E l \in OneLoader, text \in Snapshots : loadErr = "none" /\ LoadDecode(l, text)
    \/ \E l \in OneLoader : LoadInstall(l)

StaleSpec == Init /\ [][StaleNext]_vars

\* A scan whose callback calls back into the bus: another goroutine has
\* filled the log, and fn calls Publish, End, ForEachEvent and Subscribe
\* while the wall clock changes, forwards or backwards.  fn is a
\* function that returns: it publishes after the end of the log and gives
\* up when a Publish returns ErrConflict.
ReentrantNext ==
    \/ InFn /\ Tick
    \/ \E topic \in OneTopic, type \in Types, payload \in OnePayload :
          scan.pc = "none" /\ PublishCall("p2", topic, type, payload, End(events), TRUE)
    \/ \E p \in Publishers : PublishLocked(p)
    \/ \E topic \in OneTopic : ForEachEventLocked(Query(topic, <<>>))
    \/ LoopCall
    \/ LoopReturn
    \/ \E topic \in OneTopic, type \in Types, payload \in OnePayload : FnPublish(topic, type, payload, End(events))
    \/ FnEnd
    \/ FnForEachEvent
    \/ \E s \in OneSub, topic \in OneTopic : FnSubscribe(s, topic, Start)
    \/ \E s \in OneSub : ReplaySend(s)

ReentrantSpec == Init /\ [][ReentrantNext]_vars

\* The goroutine in ForEachEvent keeps running, and sync.Mutex grants a free
\* lock to a goroutine that waits for it.
ReentrantLiveSpec ==
    /\ ReentrantSpec
    /\ WF_vars(LoopCall)
    /\ WF_vars(LoopReturn)
    /\ \A p \in Publishers : WF_vars(PublishLocked(p))

\* ------------------------------------------------------------ properties
\* The order of IDs: Start() is before every ID, the others compare as the
\* numbers they spell.
IdNum(id) == IF id = <<>> THEN 0 ELSE ParseUint(id)

\* In this step publisher p's call leaves the critical section and returns.
Returns(p) == pc[p] = "lock" /\ pc'[p] = "idle"

\* The events of the log whose topic is exactly `topic`.
OnTopic(evs, topic) == SelectSeq(evs, LAMBDA e : e.Topic = topic)

\* The ID of the last event on `topic`, Start() when there is none.
LastIDOn(evs, topic) == End(OnTopic(evs, topic))


\* C1: a Publish whose lastID is the ID of an event of the log, while the log
\* holds an event of the same topic with a greater ID, returns ErrConflict
\* and appends nothing.
C1_GuardByID ==
    [][\A p \in Publishers :
         ( /\ Returns(p)
           /\ call[p].store
           /\ lookup(events, call[p].lastID) # 0
           /\ \E i \in 1..Len(events) :
                 /\ events[i].Topic = call[p].topic
                 /\ IdNum(events[i].ID) > IdNum(call[p].lastID) )
         => (ret'[p].err = ErrConflict /\ events' = events)]_vars

\* C4: the IDs in the log are strictly increasing by position, and every
\* successful Publish returns the ID of the event it appended, which is
\* greater than every ID appended before.
C4_MonotonicIDs ==
    /\ [](\A i, j \in 1..Len(events) :
             i < j => /\ ParseUint(events[i].ID) # ParseError
                      /\ ParseUint(events[i].ID) < ParseUint(events[j].ID))
    /\ [][\A p \in Publishers :
            (Returns(p) /\ call[p].store /\ ret'[p].err = ErrNone)
            => /\ Len(events') = Len(events) + 1
               /\ ret'[p].id = events'[Len(events')].ID
               /\ \A i \in 1..Len(events) : IdNum(events[i].ID) < IdNum(ret'[p].id)
               /\ \A q \in Publishers \ {p} :
                     ret[q].err = ErrNone => IdNum(ret[q].id) < IdNum(ret'[p].id)]_vars

\* C4's case: two publishers whose calls overlapped have both returned, with
\* the log full.
C4_Witness ==
    /\ Len(events) = MaxEvents
    /\ \A p \in Publishers : call[p].store /\ ret[p].err = ErrNone
    /\ \E p, q \in Publishers : IdNum(ret[p].id) = IdNum(ret[q].id) + 1

\* C7: when the guard's view of topic t is one event, with ID i, a
\* Publish(t, Start()) returns ErrConflict and appends nothing, and a
\* Publish(t, i) succeeds and appends. For a topic other than "*" the guard's
\* view from Start() is the events of the topic, so that the case is the
\* topic holding the one event of a first Publish.
C7_ConflictScenario ==
    /\ [](\A t \in Topics : filter(events, Query(t, Start)) = OnTopic(events, t))
    /\ [][\A p \in Publishers :
            LET seen == filter(events, Query(call[p].topic, Start))
            IN  (Returns(p) /\ call[p].store /\ Len(seen) = 1)
                => /\ call[p].lastID = Start
                      => (ret'[p].err = ErrConflict /\ events' = events)
                   /\ call[p].lastID = seen[1].ID
                      => /\ ret'[p].err = ErrNone
                         /\ Len(events') = Len(events) + 1
                         /\ events'[Len(events')].Topic = call[p].topic
                         /\ ret'[p].id = events'[Len(events')].ID]_vars

\* C7's case: after the first Publish on the topic, a Publish made with the
\* stale Start() has returned ErrConflict, and the second Publish on the
\* topic, made with the ID the first returned, has succeeded.
C7_Witness ==
    \E p, q \in Publishers :
        /\ p # q
        /\ pc[p] = "idle" /\ call[p].store /\ ret[p].err = ErrNone
        /\ Len(OnTopic(events, call[p].topic)) = 2
        /\ OnTopic(events, call[p].topic)[1].ID = call[p].lastID
        /\ OnTopic(events, call[p].topic)[2].ID = ret[p].id
        /\ pc[q] = "idle" /\ call[q].store /\ call[q].topic = call[p].topic
        /\ call[q].lastID = Start /\ ret[q].err = ErrConflict

\* C8: a Publish(topic, Start()) succeeds exactly when the log holds no event
\* with that topic, and returns ErrConflict otherwise.
C8_StartSentinel ==
    [][\A p \in Publishers :
         (Returns(p) /\ call[p].store /\ call[p].lastID = Start)
         => /\ ret'[p].err \in {ErrNone, ErrConflict}
            /\ ret'[p].err = ErrNone <=> OnTopic(events, call[p].topic) = <<>>]_vars

\* C9: a Publish whose lastID is End() of the log it is appended to (nothing
\* was published since the caller read End()) succeeds.
C9_EndSentinel ==
    [][\A p \in Publishers :
         (Returns(p) /\ call[p].store /\ call[p].lastID = End(events))
         => ret'[p].err = ErrNone]_vars

\* C10: appending an event of topic a leaves the outcome of a Publish on
\* another topic b, made with Start() or with the ID of the last event of b,
\* as it was.
C10_TopicIsolation ==
    [][\A a \in RealTopics : \A b \in RealTopics \ {a} :
         (Len(events') = Len(events) + 1 /\ events'[Len(events')].Topic = a)
         => \A lastID \in {Start, LastIDOn(events, b)} :
               conflict(events', b, lastID) = conflict(events, b, lastID)]_vars

\* The same with b an ordinary topic (not AllTopics).
C10_OrdinaryTopicIsolation ==
    [][\A a \in RealTopics : \A b \in Topics \ {a} :
         (Len(events') = Len(events) + 1 /\ events'[Len(events')].Topic = a)
         => \A lastID \in {Start, LastIDOn(events, b)} :
               conflict(events', b, lastID) = conflict(events, b, lastID)]_vars

\* The same as C8 for the topics other than AllTopics.
C8_OrdinaryStartSentinel ==
    [][\A p \in Publishers :
         (Returns(p) /\ call[p].store /\ call[p].lastID = Start
            /\ call[p].topic # AllTopics)
         => /\ ret'[p].err \in {ErrNone, ErrConflict}
            /\ ret'[p].err = ErrNone <=> OnTopic(events, call[p].topic) = <<>>]_vars

\* The events of a sequence that are not part of subscriber s's historical
\* slice: the ones publish's fan-out sent.
Live(s, seq) == SelectSeq(seq, LAMBDA e : e \notin Range(history[s]))

\* The stored events of a sequence (PublishUnstored leaves the ID empty).
Stored(seq) == SelectSeq(seq, LAMBDA e : e.ID # <<>>)

\* C2: no live event is enqueued for a subscriber before every event of its
\* historical slice has been sent or dropped by the replay goroutine.
C2_ReplayBeforeLive ==
    \A s \in Subs :
        Live(s, received[s] \o chanBuf[s]) # <<>> => replayPos[s] = Len(history[s])

\* C3: no send is attempted on a subscriber channel that has been closed.
C3_NoSendOnClosed == panicked # "send on closed channel"

\* C5: the stored events a subscriber receives come in append order, their
\* IDs strictly increasing.
C5_DeliveryOrder ==
    \A s \in Subs :
        LET got == Stored(received[s])
        IN  \A i, j \in 1..Len(got) : i < j => IdNum(got[i].ID) < IdNum(got[j].ID)

\* C6: for a registered subscriber created with fromID = Start(), the events
\* of the log that its topic filter selects are exactly its historical slice
\* followed by the events publish's fan-out offered it: none missing, none
\* twice.
C6_NoGapNoOverlap ==
    \A s \in subscribers :
        fromID[s] = Start
        => history[s] \o Stored(offered[s])
              = SelectSeq(events, LAMBDA e : subTopic[s] = AllTopics \/ e.Topic = subTopic[s])

\* C6's case: a subscriber that replays from Start() was registered between
\* two publishes its filter selects, the log also holding an event it does
\* not select.
C6_Witness ==
    \E s \in subscribers :
        /\ fromID[s] = Start
        /\ history[s] # <<>>
        /\ offered[s] # <<>>
        /\ Len(events) > Len(history[s]) + Len(offered[s])

\* The queues of all subscribers, with what their consumers have received.
Queues == <<chanBuf, chanClosed, received, offered>>

\* C11: a Publish that returns ErrConflict changes neither the log (and so
\* End()), nor the registry, nor any subscriber's queue.
C11_ConflictChangesNothing ==
    [][\A p \in Publishers :
         (Returns(p) /\ ret'[p].err = ErrConflict)
         => /\ events' = events
            /\ End(events') = End(events)
            /\ subscribers' = subscribers
            /\ Queues' = Queues]_vars

\* C11's case: a Publish has returned ErrConflict while a subscriber whose
\* filter selects the topic was registered with room in its queue.
C11_Witness ==
    \E p \in Publishers : \E s \in subscribers :
        /\ pc[p] = "idle" /\ ret[p].err = ErrConflict
        /\ matches(subTopic[s], [Topic |-> call[p].topic])
        /\ Len(chanBuf[s]) < chanCap[s]
        /\ offered[s] = <<>>

\* C12: Publish, PublishUnstored, SubscribeWithBufferSize and Subscribe called
\* with the empty topic return ErrNoTopic and change neither the log, nor the
\* registry, nor any subscriber's queue.
C12_EmptyTopicRejected ==
    [][/\ \A p \in Publishers, type \in Types, payload \in OnePayload, lastID \in KnownIDs(events),
             store \in BOOLEAN :
            PublishCall(p, NoTopic, type, payload, lastID, store)
            => /\ ret'[p] = [id |-> <<>>, err |-> ErrNoTopic]
               /\ pc'[p] = "idle"
               /\ <<events, subscribers, Queues>>' = <<events, subscribers, Queues>>
       /\ \A s \in Subs, from \in KnownIDs(events), bufferSize \in BufferSizes :
            (SubscribeWithBufferSize(s, NoTopic, from, bufferSize) \/ Subscribe(s, NoTopic, from))
            => /\ subErr'[s] = ErrNoTopic
               /\ <<events, subscribers, Queues>>' = <<events, subscribers, Queues>>
      ]_vars

\* C12's case: on a bus with an event and a registered subscriber holding a
\* queued event, a publish and a subscribe have returned ErrNoTopic.
C12_Witness ==
    /\ events # <<>>
    /\ \E p \in Publishers : call[p].topic = NoTopic /\ ret[p].err = ErrNoTopic
    /\ \E s \in Subs : subErr[s] = ErrNoTopic
    /\ \E s \in subscribers : chanBuf[s] # <<>>

\* C13: whatever the state of the subscribers' queues, a Publish that has
\* reached the lock returns, and when its lastID does not conflict it appends
\* its event and returns the event's ID with a nil error.
C13_PublishNeverBlocks ==
    /\ [][\A p \in Publishers :
            (Returns(p) /\ call[p].store /\ ~conflict(events, call[p].topic, call[p].lastID))
            => /\ ret'[p].err = ErrNone
               /\ Len(events') = Len(events) + 1
               /\ SubSeq(events', 1, Len(events)) = events
               /\ events'[Len(events')].Topic = call[p].topic
               /\ ret'[p].id = events'[Len(events')].ID]_vars
    /\ \A p \in Publishers : (pc[p] = "lock") ~> (pc[p] = "idle")

\* C13's case: both subscribers are registered with full queues that were
\* never consumed, and a Publish on their topic made while the queues were
\* full has returned with a nil error.
C13_Witness ==
    \E p \in Publishers :
        /\ pc[p] = "idle" /\ call[p].store /\ ret[p].err = ErrNone
        /\ ret[p].id = End(events)
        /\ subscribers = Subs
        /\ \A s \in Subs :
              /\ received[s] = <<>>
              /\ Len(chanBuf[s]) = chanCap[s]
              /\ Len(offered[s]) > chanCap[s]
              /\ offered[s][Len(offered[s])].ID = ret[p].id

\* C14: when a Publish appends an event that is dropped for a registered
\* subscriber whose queue is full, every other registered subscriber whose
\* filter selects the event and whose queue has room gets the event at the
\* end of its queue.
C14_DropAffectsOneSubscriber ==
    [][\A p \in Publishers :
         (Returns(p) /\ call[p].store /\ ret'[p].err = ErrNone)
         => LET e == events'[Len(events')]
            IN  \A a \in subscribers :
                    ( /\ matches(subTopic[a], e)
                      /\ Len(chanBuf[a]) >= chanCap[a]
                      /\ chanBuf'[a] = chanBuf[a] )
                    => \A s \in subscribers \ {a} :
                           (matches(subTopic[s], e) /\ Len(chanBuf[s]) < chanCap[s])
                           => chanBuf'[s] = Append(chanBuf[s], e)]_vars

\* C14's case: the last event of the log was offered to both subscribers;
\* one, its queue full, never got it, the other has it in its queue.
C14_Witness ==
    \E a, s \in subscribers :
        LET e == events[Len(events)]
        IN  /\ a # s /\ events # <<>>
            /\ offered[a] # <<>> /\ offered[a][Len(offered[a])] = e
            /\ offered[s] # <<>> /\ offered[s][Len(offered[s])] = e
            /\ Len(chanBuf[a]) = chanCap[a]
            /\ e \notin Range(chanBuf[a] \o received[a])
            /\ e \in Range(chanBuf[s])

\* A subscriber with a buffer of one event, nothing to replay and no
\* consumption so far, to which publish has offered at least one event.
BurstOnBufferOfOne(s) ==
    /\ s \in subscribers
    /\ chanCap[s] = 1
    /\ history[s] = <<>>
    /\ received[s] = <<>>
    /\ offered[s] # <<>>

\* C15: for a subscriber with buffer capacity 1 and no consumption, after
\* k >= 1 successful publishes on its topic the queue holds exactly one
\* event, an event of the log, the first one published since it registered.
C15_DropDiscardsNewest ==
    \A s \in Subs :
        BurstOnBufferOfOne(s)
        => /\ Len(chanBuf[s]) = 1
           /\ chanBuf[s][1] \in Range(events)
           /\ chanBuf[s][1] = offered[s][1]

\* C15's case: a burst of at least two publishes on the topic of a
\* subscriber with buffer capacity 1 that consumed nothing.
C15_Witness ==
    \E s \in Subs :
        /\ BurstOnBufferOfOne(s)
        /\ Len(offered[s]) >= 2
        /\ chanBuf[s] = <<offered[s][1]>>

\* C16: for a subscriber with buffer size 1 and no consumption, after a
\* burst of publishes on its topic the one event in its queue is the most
\* recently published one.
C16_BufferOfOneKeepsNewest ==
    \A s \in Subs :
        BurstOnBufferOfOne(s)
        => chanBuf[s] = <<offered[s][Len(offered[s])]>>

\* The events a subscription has made available so far: those its consumer
\* has received, then those waiting in its queue.
Available(s) == received[s] \o chanBuf[s]

\* The events of the log that subscriber s's topic filter selects.
Selected(s) == SelectSeq(events, LAMBDA e : subTopic[s] = AllTopics \/ e.Topic = subTopic[s])

IsPrefix(a, b) == Len(a) <= Len(b) /\ a = SubSeq(b, 1, Len(a))

\* A subscriber registered with Start() on a bus where nothing is published
\* any more, its buffer large enough for the N events its filter selects.
IdleReader(s) ==
    /\ s \in subscribers
    /\ fromID[s] = Start
    /\ chanCap[s] >= Len(Selected(s))
    /\ offered[s] = <<>>

\* C17: for such a subscriber the events available on the subscription are
\* at any time the first of the N selected events, in append order, and
\* eventually all N of them, once each.
C17_ReplayCompleteness ==
    \A s \in Subs :
        /\ [](IdleReader(s) => IsPrefix(Available(s), Selected(s)))
        /\ (IdleReader(s) ~> (Available(s) = Selected(s)))

\* C17's case: two or more events were published on the topic, then the
\* subscriber registered with Start() and a buffer that holds them, and its
\* replay has made them all available.
C17_Witness ==
    \E s \in Subs :
        /\ IdleReader(s)
        /\ Len(Selected(s)) >= 2
        /\ Len(events) > Len(Selected(s))
        /\ replayPos[s] = Len(history[s])
        /\ Available(s) = Selected(s)

\* C18: a subscription made with the ID of an event of the log as fromID
\* gets as its historical slice exactly the events its topic filter selects
\* whose ID is greater than fromID.
C18_ReplayFromPosition ==
    [][\A s \in Subs :
         (subErr[s] = "none" /\ subErr'[s] = ErrNone /\ lookup(events, fromID'[s]) # 0)
         => LET topic == subTopic'[s]
                from == fromID'[s]
            IN  history'[s] = SelectSeq(events, LAMBDA e :
                                  /\ (topic = AllTopics \/ e.Topic = topic)
                                  /\ IdNum(e.ID) > IdNum(from))]_vars

\* C19: a Close that has closed the queue has removed the subscriber from
\* the registry; a closed queue stays closed and only loses events to its
\* reader, oldest first (the reader gets what was queued, then end-of-stream);
\* nothing is offered to a subscriber once a Close has removed it; a Close
\* that finds the subscriber removed changes nothing; and no Close closes
\* the queue a second time.
C19_CloseSemantics ==
    /\ [](\A s \in Subs :
             /\ chanClosed[s] => (s \notin subscribers /\ closeCalls[s] >= 1)
             /\ closeCalls[s] >= 1 => s \notin subscribers)
    /\ [](panicked # "close of closed channel")
    /\ [][\A s \in Subs :
            /\ chanClosed[s]
               => /\ chanClosed'[s]
                  /\ \/ chanBuf'[s] = chanBuf[s] /\ received'[s] = received[s]
                     \/ /\ chanBuf[s] # <<>>
                        /\ chanBuf'[s] = Tail(chanBuf[s])
                        /\ received'[s] = Append(received[s], Head(chanBuf[s]))
            /\ (subErr[s] = ErrNone /\ s \notin subscribers)
               => (s \notin subscribers' /\ offered'[s] = offered[s])
            /\ (s \notin subscribers /\ closeCalls'[s] = closeCalls[s] + 1
                  /\ closePc'[s] = closePc[s])
               => <<events, subscribers, Queues, panicked>>'
                     = <<events, subscribers, Queues, panicked>>]_vars

\* C19's case: Close has been called MaxCloses times on a subscription whose
\* queue still holds an event, and an event its filter selects was appended
\* afterwards and not offered to it.
C19_Witness ==
    \E s \in Subs :
        /\ closeCalls[s] = MaxCloses
        /\ chanClosed[s]
        /\ chanBuf[s] # <<>>
        /\ panicked = "none"
        /\ \E i \in 1..Len(events) :
              /\ matches(subTopic[s], events[i])
              /\ events[i] \notin Range(history[s] \o offered[s])

\* C20 as stated: every SubscribeWithBufferSize call with a negative
\* bufferSize returns ErrInvalidBuffer and leaves the registry and the log
\* unchanged, and a successful Subscribe creates a queue of capacity 1024.
C20_BufferValidation ==
    [][\A s \in Subs, from \in KnownIDs(events) :
         /\ \A topic \in SubscribeTopics \cup {NoTopic},
               bufferSize \in {b \in BufferSizes : b < 0} :
               SubscribeWithBufferSize(s, topic, from, bufferSize)
               => /\ subErr'[s] = ErrInvalidBuffer
                  /\ <<events, subscribers>>' = <<events, subscribers>>
         /\ \A topic \in SubscribeTopics :
               Subscribe(s, topic, from)
               => (subErr'[s] = ErrNone /\ s \in subscribers' /\ chanCap'[s] = 1024)]_vars

\* C20 for the calls whose topic is not empty: a SubscribeWithBufferSize call
\* with a non-empty topic and a negative bufferSize returns ErrInvalidBuffer
\* and leaves the registry, the log and the queues unchanged, and a
\* successful Subscribe creates a queue of capacity 1024. A call with an empty
\* topic returns ErrNoTopic whatever the bufferSize, and changes nothing.
C20_BufferValidationWithTopic ==
    [][\A s \in Subs, from \in KnownIDs(events) :
         /\ \A topic \in SubscribeTopics :
               /\ \A bufferSize \in {b \in BufferSizes : b < 0} :
                     SubscribeWithBufferSize(s, topic, from, bufferSize)
                     => /\ subErr'[s] = ErrInvalidBuffer
                        /\ <<events, subscribers, Queues>>' = <<events, subscribers, Queues>>
               /\ Subscribe(s, topic, from)
                  => (subErr'[s] = ErrNone /\ s \in subscribers' /\ chanCap'[s] = 1024)
         /\ \A bufferSize \in BufferSizes :
               SubscribeWithBufferSize(s, NoTopic, from, bufferSize)
               => /\ subErr'[s] = ErrNoTopic
                  /\ <<events, subscribers, Queues>>' = <<events, subscribers, Queues>>]_vars

\* C20's case: on a bus with an event and a registered subscriber, one call
\* has returned ErrInvalidBuffer and a Subscribe has created its queue and
\* been offered an event.
C20_Witness ==
    /\ events # <<>>
    /\ \E s \in Subs : subErr[s] = ErrInvalidBuffer /\ s \notin subscribers
    /\ \E s \in subscribers : chanCap[s] = DefaultBufferSize /\ chanBuf[s] # <<>>

\* ------------------------------------------------------------ C21
\* The last event of a sequence.
Last(seq) == seq[Len(seq)]

\* C21: on a subscription of capacity zero, an event that publish or the
\* replay goroutine tries to enqueue is received by the consumer exactly when
\* the consumer is blocked in a receive at that step; otherwise it is dropped
\* (nothing is ever buffered), and the publisher returns in the same step.
C21_UnbufferedDelivery ==
    [][\A s \in OneSub :
          (chanCap[s] = 0 /\ subErr[s] = ErrNone /\ panicked' = "none") =>
             /\ chanBuf'[s] = <<>>
             /\ offered'[s] # offered[s] =>
                   /\ received'[s] = IF waiting[s]
                                     THEN Append(received[s], Last(offered'[s]))
                                     ELSE received[s]
                   /\ ~waiting'[s]
                   /\ \E p \in OnePublisher : Returns(p) /\ ret'[p].err = ErrNone
             /\ replayPos'[s] # replayPos[s] =>
                   /\ received'[s] = IF waiting[s]
                                     THEN Append(received[s], history[s][replayPos'[s]])
                                     ELSE received[s]
                   /\ ~waiting'[s]]_vars

\* An unbuffered subscription has received one live event and missed another:
\* the consumer was blocked in a receive for the first only.
C21_Witness ==
    \E s \in OneSub :
        /\ chanCap[s] = 0 /\ subErr[s] = ErrNone
        /\ history[s] = <<>>
        /\ Len(offered[s]) = 2
        /\ received[s] = <<offered[s][1]>>
        /\ ~waiting[s]

\* ------------------------------------------------------------ C22
\* C22: a Load that succeeds decodes its reader without touching the bus and
\* then leaves as the log exactly the decoded sequence,
\* in order, in one step, and changes neither the registry nor any
\* subscriber's queue, nor the slice a ForEachEvent call is ranging over;
\* a Load that fails changes nothing.
C22_LoadReplacesLog ==
    [][\A l \in OneLoader :
          /\ \A text \in Snapshots :
                LoadDecode(l, text) =>
                   /\ events' = events
                   /\ IF ~text.valid
                      THEN loadErr' = ErrDecode /\ loading' = loading
                      ELSE /\ loadErr' = loadErr
                           /\ Len(loading'[l].events) = Len(text.array)
                           /\ \A i \in 1..Len(text.array) :
                                 /\ loading'[l].events[i].ID = text.array[i].id
                                 /\ loading'[l].events[i].Topic = text.array[i].topic
                                 /\ loading'[l].events[i].Type = text.array[i].type
                   /\ subscribers' = subscribers
                   /\ UNCHANGED Queues
                   /\ scan' = scan
          /\ LoadInstall(l) =>
                   /\ loadErr' = ErrNone
                   /\ events' = loading[l].events
                   /\ subscribers' = subscribers
                   /\ UNCHANGED Queues
                   /\ scan' = scan]_vars

\* A Load has replaced a log of published events by a snapshot with other
\* ids while a subscriber holds a queued event that is no longer in the log.
C22_Witness ==
    /\ loadErr = ErrNone
    /\ Len(events) = 2 /\ events[1].ID = <<2>> /\ events[2].ID = <<2>>
    /\ scan.pc = "calling" /\ Len(scan.events) = 1
    /\ \E s \in subscribers : chanBuf[s] # <<>> /\ Head(chanBuf[s]).ID = <<1>>

\* ------------------------------------------------------------ C23
\* Every id of the log parses.
Parseable(evs) == \A i \in 1..Len(evs) : ParseUint(evs[i].ID) # ParseError

\* A stored publish of p returns successfully in this step.
Appends(p) == Returns(p) /\ call[p].store /\ ret'[p].err = ErrNone

\* C23: once a snapshot whose ids all parse has been loaded, whatever their
\* order, an event published afterwards gets an id that is greater than every
\* id of the log it is appended to, hence equal to none of them; on an empty
\* log (a loaded empty snapshot included) the id is "1".
C23_IdResync ==
    [][\A p \in OnePublisher :
          (loadErr = ErrNone /\ Parseable(events) /\ Appends(p)) =>
             /\ \A i \in 1..Len(events) : IdNum(ret'[p].id) > IdNum(events[i].ID)
             /\ events = <<>> => ret'[p].id = <<1>>]_vars

\* ------------------------------------------------------------ C24
\* A snapshot holds an id that does not parse.
HasBadID(text) == \E i \in 1..Len(text.array) : ParseUint(text.array[i].id) = ParseError

\* C24: Load returns an error for a snapshot that holds an unparseable id
\* and leaves the log as it was; and Publish never panics on an id.
C24_LoadRejectsBadIDs ==
    [][/\ \A l \in OneLoader, text \in Snapshots :
             (LoadDecode(l, text) /\ HasBadID(text)) =>
                (loadErr' # ErrNone /\ loading' = loading /\ events' = events)
       /\ panicked' # "eventbus: invalid id"]_vars

\* ------------------------------------------------------------ C25
\* C25: loading what Dump wrote yields the dumped events in the same order,
\* with the same ids, timestamps, topics and types: Dump copies the log, what
\* a Dump that returns nil has written decodes to that copy, and Load
\* installs what the text it read decodes to. A
\* Publish with lastID = End() on a log that was loaded this way succeeds
\* and takes the id that follows the last id of the log.
C25_RoundTrip ==
    [][/\ \A d \in OneDumper :
             /\ DumpLocked(d) => dumping'[d].copy = events
             /\ DumpWrite(d, TRUE) =>
                   Decode(dumped') = [err |-> ErrNone, events |-> dumping[d].copy]
       /\ \A l \in OneLoader :
             /\ LoadDecode(l, dumped) =>
                   (dumped.valid => loading'[l].events = Decode(dumped).events)
             /\ LoadInstall(l) => (loadErr' = ErrNone /\ events' = loading[l].events)
       /\ \A p \in OnePublisher :
             (loadErr = ErrNone /\ Returns(p) /\ call[p].lastID = End(events)) =>
                /\ ret'[p].err = ErrNone
                /\ ret'[p].id = FormatUint(IdNum(End(events)) + 1)
                /\ End(events') = ret'[p].id]_vars

\* A log of two events with different timestamps and topics was dumped and
\* loaded back, and a Publish at End() has continued from id "2" with a new
\* event "3".
C25_Witness ==
    /\ loadErr = ErrNone
    /\ Len(dumped.array) = 2
    /\ Len(events) = 3
    /\ events[1].Timestamp # events[2].Timestamp
    /\ events[1].Topic # events[2].Topic
    /\ \A i \in 1..2 : EncodeEvent(events[i]) = dumped.array[i]
    /\ \E p \in OnePublisher : pc[p] = "idle" /\ ret[p].id = <<3>>

\* ------------------------------------------------------------ C26
\* C26: ForEachEvent(Query{Topic: t}, fn), t an ordinary topic, passes to fn
\* the events of topic t of the log as it was when the call took it, each
\* once, in append order, and nothing else: at every moment of the loop the
\* events passed so far are a prefix of that sequence, and all of it when
\* the call returns, whatever has been published meanwhile. With a payload
\* predicate in the query, the same holds of the events of topic t whose
\* payload the predicate accepts.
C26_ScanIsSnapshot ==
    (scan.pc # "none" /\ scan.topic \in Topics) =>
        LET selected == SelectSeq(OnTopic(scan.log, scan.topic), LAMBDA e :
                            scan.q.PayloadFilter.nil
                            \/ e.Payload \in scan.q.PayloadFilter.accepts)
        IN  /\ scan.q = Query(scan.topic, Start) => selected = OnTopic(scan.log, scan.topic)
            /\ IsPrefix(scan.passed, selected)
            /\ scan.pc = "done" => scan.passed = selected

\* A scan of topic "a" has returned after passing one event, skipping an
\* event of topic "b", while an event of topic "a" published during the scan
\* is in the log and was not passed.
C26_Witness ==
    /\ scan.pc = "done" /\ scan.q = Query("a", Start)
    /\ Len(scan.log) = 2 /\ Len(scan.passed) = 1
    /\ Len(events) = 3 /\ events[3].Topic = "a"

\* ------------------------------------------------------------ C27
\* C27: Start() differs from the id of every stored event and is ordered
\* before it; End() is Start() on an empty log and the id of the last event
\* otherwise, so that when a Publish returns successfully End() is the id it
\* returns.
C27_StartAndEnd ==
    /\ [](/\ \A i \in 1..Len(events) :
              events[i].ID # Start /\ IdNum(Start) < IdNum(events[i].ID)
          /\ End(events) = IF events = <<>> THEN Start ELSE Last(events).ID)
    /\ [][\A p \in Publishers : Appends(p) => End(events') = ret'[p].id]_vars

\* Two publishes have returned, the second with id "2", which End() returns.
C27_Witness ==
    /\ Len(events) = 2
    /\ \E p \in Publishers : pc[p] = "idle" /\ ret[p] = [id |-> <<2>>, err |-> ErrNone]
    /\ End(events) = <<2>> /\ End(events) # Start

\* ------------------------------------------------------------ C28
\* The events that the read operations have handed out: the slice of the
\* scan, the content of the last Dump, and every subscriber's replay slice.
ReadBack ==
    Range(scan.events) \cup Range(Decode(dumped).events)
        \cup UNION {Range(history[s]) : s \in Subs}

\* C28: a PublishUnstored with a non-empty topic returns no error, leaves the
\* log and End() as they are, and offers its event, which has no id, to
\* every registered subscriber whose topic is the event's or the wildcard,
\* with the same drop when the queue is full, and to no other; and no read
\* of the log (ForEachEvent, Dump, replay) ever hands out such an event.
C28_UnstoredPublish ==
    /\ [][\A p \in OnePublisher :
            (pc[p] = "lock" /\ ~call[p].store /\ pc'[p] = "idle") =>
               LET e == Event(<<>>, call[p].ts, call[p].topic, call[p].type, call[p].payload)
               IN  /\ ret'[p].err = ErrNone
                   /\ events' = events
                   /\ End(events') = End(events)
                   /\ \A s \in Subs :
                         IF s \in subscribers /\ subTopic[s] \in {AllTopics, e.Topic}
                         THEN /\ offered'[s] = Append(offered[s], e)
                              /\ chanBuf'[s] = IF Len(chanBuf[s]) < chanCap[s]
                                               THEN Append(chanBuf[s], e)
                                               ELSE chanBuf[s]
                         ELSE /\ offered'[s] = offered[s]
                              /\ chanBuf'[s] = chanBuf[s]]_vars
    /\ [](\A e \in ReadBack : e \in Range(events) /\ e.ID # <<>>)

\* An unstored event sits in the queue of one subscriber and was dropped at
\* the full queue of another; the log holds stored events only, which a scan
\* and a Dump have read.
C28_Witness ==
    /\ unstored = 1
    /\ \A p \in OnePublisher : pc[p] = "idle"
    /\ Len(events) >= 1
    /\ \E s \in subscribers : \E i \in 1..Len(chanBuf[s]) : chanBuf[s][i].ID = <<>>
    /\ \E s \in subscribers :
          /\ \E i \in 1..Len(offered[s]) : offered[s][i].ID = <<>>
          /\ \A i \in 1..Len(chanBuf[s]) : chanBuf[s][i].ID # <<>>
    /\ scan.pc = "done" /\ scan.passed = events
    /\ dumped = Encode(events)

\* ------------------------------------------------------------ C29
\* C29: no event of the log has the wildcard "*" as its topic.
C29_WildcardNeverStored == \A i \in 1..Len(events) : events[i].Topic # AllTopics

\* ------------------------------------------------------------ C30
\* C30: timestamps never decrease along the log, concurrent publishers that
\* read the clock before taking the lock included.
C30_TimestampsNonDecreasing ==
    \A i, j \in 1..Len(events) : i < j => events[i].Timestamp <= events[j].Timestamp

\* ------------------------------------------------------------ C31
\* C31: with every operation but Load, the log changes only in the step in
\* which a Publish returns successfully, and then by one event added at the
\* end, the one whose id is returned: the previous log is a prefix of the
\* new one, so no stored event is changed, moved or removed.
C31_AppendOnly ==
    [][events' # events =>
          /\ \E p \in OnePublisher : Appends(p) /\ Last(events').ID = ret'[p].id
          /\ Len(events') = Len(events) + 1
          /\ IsPrefix(events, events')]_vars

\* Two events are stored, a PublishUnstored has returned, the subscription
\* has queued an event and was closed, a scan has returned and a Dump was
\* written.
C31_Witness ==
    /\ Len(events) = 2
    /\ unstored = 1
    /\ \A p \in OnePublisher : pc[p] = "idle"
    /\ \E s \in OneSub : chanClosed[s] /\ chanBuf[s] # <<>>
    /\ scan.pc = "done" /\ scan.passed # <<>>
    /\ dumped.valid

\* ------------------------------------------------------------ C32
\* The ids of a sequence of events, in order.
IDs(evs) == [i \in 1..Len(evs) |-> evs[i].ID]

\* The positions of the log whose event has this topic, in order, as ids.
PositionsOf(evs, topic) ==
    IDs(SelectSeq([i \in 1..Len(evs) |->
                     [ID |-> FormatUint(i), Topic |-> evs[i].Topic]],
                  LAMBDA r : r.Topic = topic))

\* C32: on a bus that is never loaded the k-th successful Publish, all
\* topics counted together, returns the id k (failed calls consume no id), so
\* the event at position k of the log has id k, and a scan of one topic that
\* has returned has passed the events of that topic with their positions in
\* the log as ids, in increasing order.
C32_GlobalSequence ==
    /\ [][\A p \in Publishers : Appends(p) => ret'[p].id = FormatUint(Len(events) + 1)]_vars
    /\ [](\A i \in 1..Len(events) : events[i].ID = FormatUint(i))
    /\ [](scan.pc = "done" => IDs(scan.passed) = PositionsOf(scan.log, scan.topic))

\* Published in sequence on topics a, a, b: the ids are 1, 2, 3 and a scan
\* of topic a made afterwards has passed the events 1 and 2, in that order;
\* a call has returned ErrConflict meanwhile.
C32_Witness ==
    /\ Len(events) = 3
    /\ events[1].Topic = "a" /\ events[2].Topic = "a" /\ events[3].Topic = "b"
    /\ IDs(events) = <<(<<1>>), (<<2>>), (<<3>>)>>
    /\ scan.pc = "done" /\ scan.topic = "a" /\ Len(scan.log) = 3
    /\ IDs(scan.passed) = <<(<<1>>), (<<2>>)>>
    /\ \E p \in Publishers : ret[p].err = ErrConflict

\* ------------------------------------------------------------ C33
\* C33: a query whose AfterID is not empty and is the id of no event of the
\* log selects what the same query selects with AfterID left empty: the
\* replay slice of a subscriber registered from such an id is the slice it
\* would get from Start() (the log does not change once the reader has
\* subscribed).
C33_UnknownAfterIDIgnored ==
    \A s \in OneSub :
        (subErr[s] = ErrNone /\ fromID[s] # <<>> /\ lookup(events, fromID[s]) = 0) =>
            history[s] = filter(events, Query(subTopic[s], <<>>))

\* ------------------------------------------------------------ C34
\* C34: a Publish or PublishUnstored that returns successfully offers its
\* event to the registered subscribers whose topic is the event's topic or
\* AllTopics, and to no other; an AllTopics subscriber whose queue has room
\* then holds the event, whatever its topic; and a subscriber with a
\* single-topic filter never holds an event of another topic.
C34_FanOutMatching ==
    /\ [][\A p \in OnePublisher :
            (Returns(p) /\ ret'[p].err = ErrNone) =>
               LET e == Event(ret'[p].id, call[p].ts, call[p].topic, call[p].type,
                             call[p].payload)
               IN  \A s \in Subs :
                     /\ offered'[s] =
                           IF s \in subscribers /\ subTopic[s] \in {e.Topic, AllTopics}
                           THEN Append(offered[s], e) ELSE offered[s]
                     /\ (s \in subscribers /\ subTopic[s] = AllTopics
                            /\ Len(chanBuf[s]) < chanCap[s]) =>
                           chanBuf'[s] = Append(chanBuf[s], e)]_vars
    /\ [](\A s \in Subs : \A e \in Range(received[s] \o chanBuf[s]) :
             subTopic[s] \in {e.Topic, AllTopics})

\* A wildcard subscriber holds a stored event of topic a and has been
\* offered an unstored event of topic b after it; a subscriber of topic b,
\* registered for both, has been offered the second only and holds it.
C34_Witness ==
    \E s, t \in subscribers :
        /\ subTopic[s] = AllTopics /\ subTopic[t] = "b"
        /\ Len(offered[s]) = 2
        /\ offered[s][1].Topic = "a" /\ offered[s][1].ID = <<1>>
        /\ offered[s][2].Topic = "b" /\ offered[s][2].ID = <<>>
        /\ chanBuf[s] = <<offered[s][1]>>
        /\ offered[t] = <<offered[s][2]>>
        /\ chanBuf[t] = offered[t]

\* ------------------------------------------------------------ C35
\* C35: a Publish whose lastID is not empty and is the id of no event of the
\* log returns ErrConflict and appends nothing whenever the log holds an
\* event of the topic with an id greater than lastID.
C35_UnknownLastIDGuarded ==
    [][\A p \in OnePublisher :
          (/\ Returns(p) /\ call[p].store
           /\ call[p].lastID # <<>> /\ lookup(events, call[p].lastID) = 0
           /\ Parseable(events)
           /\ \E i \in 1..Len(events) :
                 /\ events[i].Topic = call[p].topic
                 /\ IdNum(events[i].ID) > IdNum(call[p].lastID))
          => (ret'[p].err = ErrConflict /\ events' = events)]_vars

\* ------------------------------------------------------------ C36
\* C36: a subscriber's queue never holds more events than the capacity it
\* was created with, whatever the interleaving of the replay goroutine, the
\* publishers' fan-out, the consumer and Close.
C36_BoundedQueues ==
    \A s \in Subs : Len(chanBuf[s]) <= chanCap[s]

\* A queue of capacity 1 is full while the replay goroutine still has an
\* event to send and a live event has already been offered and dropped.
C36_Witness ==
    \E s \in OneSub :
        /\ chanCap[s] = 1 /\ Len(chanBuf[s]) = 1
        /\ replayPos[s] < Len(history[s])
        /\ offered[s] # <<>>
        /\ received[s] # <<>>

\* ------------------------------------------------------------ C37
\* C37: a subscriber is in the registry exactly from the registration of
\* Subscribe until the first Close has run its critical section; its channel
\* is never closed twice, however the Close calls interleave; and the
\* fan-out of publish never offers an event to a subscriber whose channel is
\* closed or about to be closed by a Close that has unregistered it.
C37_RegistryAndQueueLifecycle ==
    /\ [](\A s \in OneSub :
             s \in subscribers <=> (subErr[s] = ErrNone /\ closePc[s] = "none"))
    /\ [](panicked # "close of closed channel")
    /\ [][\A s \in OneSub :
             /\ chanClosed[s] => chanClosed'[s]
             /\ offered'[s] # offered[s] => (s \in subscribers /\ ~chanClosed[s])]_vars

\* A subscription that was offered a live event has been closed by two Close
\* calls, and an event of its topic published after that was not offered.
C37_Witness ==
    \E s \in OneSub :
        /\ chanClosed[s] /\ closeCalls[s] = 2
        /\ Len(offered[s]) = 1
        /\ Len(events) = 2
        /\ matches(subTopic[s], events[2])
        /\ offered[s][1] = events[1]
        /\ panicked = "none"

\* C38: ForEachEvent is re-entrant. A scan whose callback calls Publish,
\* End, Subscribe or ForEachEvent on the same bus runs to its end, a Publish
\* made by the callback returns, and what the scan passes to fn is a prefix
\* of the matching events of the log as it was when the scan took its slice:
\* an event the callback publishes is never passed to the running scan.
C38_ForEachEventReentrant ==
    /\ (scan.pc = "calling") ~> (scan.pc = "done")
    /\ (pc[FnCaller] = "lock") ~> (pc[FnCaller] = "idle")
    /\ [](scan.pc # "none" =>
            /\ IsPrefix(scan.passed, filter(scan.log, Query(scan.topic, Start)))
            /\ IsPrefix(scan.log, events))

\* A finished scan whose callback published an event on the scanned topic
\* (stored, but not passed), read End, ran an inner scan that saw the new
\* event, and subscribed.
C38_Witness ==
    /\ scan.pc = "done"
    /\ Len(scan.passed) > 0
    /\ ret[FnCaller].err = ErrNone
    /\ ret[FnCaller].id = End(events)
    /\ scan.fnEnd = End(events)
    /\ Len(scan.fnEvents) > Len(scan.passed)
    /\ Len(filter(events, Query(scan.topic, Start))) > Len(scan.passed)
    /\ "s1" \in subscribers

\* C39: identity is assigned only by appends. Every event offered to a
\* subscriber by the fan-out, and every event of its historical slice, of its
\* queue or received by it, is either a stored event, equal to the log entry
\* that carries its id, or an event of PublishUnstored with the empty id,
\* which is Start(); the historical slice holds stored events only, and no
\* subscriber is offered more id-less events than there were
\* PublishUnstored calls. A PublishUnstored step leaves the next id as it
\* was, and a successful Publish returns the number of stored events plus
\* one, whatever the number of PublishUnstored calls before it.
C39_IdentityOnlyByAppends ==
    /\ [](\A s \in Subs : \A i \in 1..Len(offered[s]) :
            LET e == offered[s][i]
            IN  IF e.ID = Start
                THEN /\ e \notin Range(events)
                     /\ Cardinality({j \in 1..Len(offered[s]) :
                                        offered[s][j].ID = Start}) <= unstored
                ELSE \E n \in 1..Len(events) :
                        events[n] = e /\ e.ID = FormatUint(n))
    /\ [](\A s \in Subs :
            /\ \A e \in Range(history[s]) :
                  \E n \in 1..Len(events) : events[n] = e /\ e.ID = FormatUint(n)
            /\ \A e \in Range(chanBuf[s] \o received[s]) :
                  IF e.ID = Start
                  THEN e \notin Range(events)
                  ELSE \E n \in 1..Len(events) :
                          events[n] = e /\ e.ID = FormatUint(n))
    /\ [][\A p \in OnePublisher :
            /\ (Returns(p) /\ ~call[p].store) =>
                  /\ ret'[p].id = Start
                  /\ yieldID(events') = yieldID(events)
            /\ Appends(p) =>
                  /\ ret'[p].id = FormatUint(Len(events) + 1)
                  /\ ret'[p].id = End(events')]_vars

\* A subscriber was offered a stored event, then an event of
\* PublishUnstored, then the next stored event, whose id follows the first;
\* another holds a replayed event in its queue.
C39_Witness ==
    /\ unstored = 1
    /\ \E s \in subscribers :
          /\ Len(offered[s]) = 3
          /\ offered[s][1].ID = FormatUint(1)
          /\ offered[s][2].ID = Start
          /\ offered[s][3].ID = FormatUint(2)
    /\ \E s \in subscribers :
          replayPos[s] > 0 /\ chanBuf[s] # <<>> /\ chanBuf[s][1] = history[s][1]
    /\ Len(events) = 2
    /\ \A p \in OnePublisher : pc[p] = "idle" /\ ret[p].id = FormatUint(2)
====
